---- MODULE Spec2Model ----
(***************************************************************************)
(* Cryptocurrency Volatility Index: the per-asset pipeline buildForAsset   *)
(* of scripts/fetchOptionsData.js (its current version, lines 1-453, and   *)
(* the "tick" version kept in part_004), the retrying httpGet, the         *)
(* pMapLimit worker pool and the Newton solver impliedVol.                 *)
(*                                                                         *)
(* Numbers.  Prices, strikes and spots are integers.  Volatilities are in  *)
(* thousandths (0.05 is 50, 2.0 is 2000).  JavaScript's null/undefined and *)
(* NaN are the two marked values Null and NaN; every operator that the     *)
(* code applies to them is modelled on what JavaScript does with them      *)
(* (truthiness, ??, Number(), isFinite(), Math.min/max, JSON.stringify).   *)
(***************************************************************************)
EXTENDS Integers, Sequences, FiniteSets, TLC

(***************************************************************************)
(* JavaScript values                                                       *)
(***************************************************************************)
Null == -9999
NaN == -9998
\* the outcome "the awaited promise rejected" of a feed call
Throw == -9997

Min(a, b) == IF a <= b THEN a ELSE b
Max(a, b) == IF a >= b THEN a ELSE b
Abs(x) == IF x < 0 THEN 0 - x ELSE x

\* !x is false: x is neither null, NaN nor 0
Truthy(x) == x \notin {Null, NaN, 0}
\* a ?? b
Coalesce(a, b) == IF a = Null THEN b ELSE a
\* a || b
OrElse(a, b) == IF Truthy(a) THEN a ELSE b
\* Number(x): Number(null) is 0
ToNumber(x) == IF x = Null THEN 0 ELSE x
\* the global isFinite(x), which coerces: isFinite(null) is true
IsFinite(x) == ToNumber(x) # NaN
\* Math.max(lo, Math.min(hi, x)): NaN stays NaN, null counts as 0
clamp(x, lo, hi) == IF x = NaN THEN NaN ELSE Max(lo, Min(hi, ToNumber(x)))
\* JSON.stringify followed by JSON.parse of one number: NaN is written null
ToJSON(x) == IF x = NaN THEN Null ELSE x
\* Math.round(n / d) for d > 0: the nearest integer, halves upwards
RoundDiv(n, d) == (2 * n + d) \div (2 * d)

(***************************************************************************)
(* Program constants                                                       *)
(***************************************************************************)
TARGET_DAYS == 30
\* clamp(val, 0.05, 2.0) of the fallback and synthetic base volatility
IV_FLOOR == 50
IV_CEIL == 2000
\* clamp(iv, 0.01, 3.0) of a smile point
SMILE_IV_MIN == 10
SMILE_IV_MAX == 3000
\* the neutral volatility 0.5 and the neutral spot 100
DEFAULT_IV == 500
DEFAULT_SPOT == 100
\* the seed row of part_004: atm_iv 0.2
SEED_IV == 200
\* series.slice(-30) of the own-series volatility fallback
RV_WINDOW == 30
\* the strike bands, in percent of spot: fetch, vega weighting, display
FETCH_BAND == 40
VEGA_BAND == 10
DISPLAY_BAND == 20
\* a real smile shorter than this is completed from the puts / not cut
MIN_SMILE == 3
SEED_TWO_POINTS == TRUE

(***************************************************************************)
(* Bounds of the model                                                     *)
(***************************************************************************)
\* MAX_TS_POINTS is 2000 in the code; the model keeps the same trimming
\* code with a cap small enough for the trimming to happen
MAX_TS_POINTS == 2
\* number of pipeline runs explored
MaxRuns == 2

ASSETS == {"BTC"}
Scripts == {"fetchOptionsData", "part_004"}

(***************************************************************************)
(* Sequences                                                               *)
(***************************************************************************)
Last(s) == s[Len(s)]
\* arr.slice(-n)
SliceLast(s, n) == SubSeq(s, Max(1, Len(s) - n + 1), Len(s))
\* arr.slice(0, n)
SliceFirst(s, n) == SubSeq(s, 1, Min(n, Len(s)))
RECURSIVE SumSeq(_)
SumSeq(s) == IF s = <<>> THEN 0 ELSE s[1] + SumSeq(Tail(s))
MapSeq(s, F(_)) == [i \in 1..Len(s) |-> F(s[i])]
\* Array.prototype.sort((a,b) => Key(a) - Key(b)): a stable sort, ascending
SortBy(s, Key(_)) ==
  LET Insert(t, x) ==
        LET n == Cardinality({j \in 1..Len(t) : Key(t[j]) <= Key(x)})
        IN SubSeq(t, 1, n) \o <<x>> \o SubSeq(t, n + 1, Len(t))
      f[i \in 0..Len(s)] == IF i = 0 THEN <<>> ELSE Insert(f[i - 1], s[i])
  IN f[Len(s)]

(***************************************************************************)
(* Data sources, as seen by one run.  A run's input `in` holds what each   *)
(* source answers during that run:                                         *)
(*   useCG        USE_CG of the process                                    *)
(*   cg           the CoinGecko spot: a number, Null, or Throw             *)
(*   dbt          the Deribit index price, Null when the call failed       *)
(*   instruments  getInstruments, <<>> when the call failed                *)
(*   quotes       getMarkOrLast by instrument_name, Null when it failed    *)
(*   iv           what impliedVol returns for the instrument's quote       *)
(*   rv           the CoinGecko 30-day realized volatility                 *)
(***************************************************************************)
getSpotFromCoingecko(in) == IF ~in.useCG THEN Null ELSE in.cg
\* Number(index_price ?? NaN), null unless finite
getSpotFromDeribitIndex(in) == IF in.dbt \in {Null, NaN} THEN Null ELSE in.dbt
getInstruments(in) == in.instruments
\* Number(mark_price ?? last_price ?? NaN), null unless finite
getMarkOrLast(in, inst) ==
  LET p == in.quotes[inst.instrument_name] IN IF p \in {Null, NaN} THEN Null ELSE p
getRealizedVol30d(in) == IF ~in.useCG THEN Null ELSE in.rv

\* impliedVol inside the pipeline: null for a non-positive price, otherwise
\* the solver's answer for that instrument
SolvedVol(in, inst, px) == IF px <= 0 THEN Null ELSE in.iv[inst.instrument_name]

\* callFromPut, with the discount factor exp(-r*T) of a 30-day option taken as 1
callFromPut(putPrice, S, K) == putPrice + S - K

\* vega(S,K,T,r,sigma) is S*sqrt(T)*pdf(d1): positive, largest near the money.
\* The model keeps a positive integer weight with that shape.
vega(S, K) == IF Abs(K - S) * 100 <= VEGA_BAND * Abs(S) THEN 2 ELSE 1

\* Math.abs(strike / S - 1) <= pct/100, for S # 0
InBand(strike, S, pct) == Abs(strike - S) * 100 <= pct * Abs(S)

(***************************************************************************)
(* The real smile of one run.  S is the spot resolved so far; in part_004  *)
(* it may still be null, which is why every use reads S || something.  In  *)
(* fetchOptionsData.js S is truthy here and S || x is S.                   *)
(***************************************************************************)
NoSmile == [smile |-> <<>>, atm_iv |-> Null, vega_weighted_iv |-> Null,
            days_to_expiry |-> Null]

\* instruments that are active and expire more than one day ahead, nearest
\* to TARGET_DAYS first
byProx(instruments) ==
  SortBy(SelectSeq(instruments, LAMBDA x : x.is_active /\ x.dte > 1),
         LAMBDA x : Abs(x.dte - TARGET_DAYS))

\* the instruments of the chosen expiry inside the fetch band
rawAtT(instruments, tgt, S) ==
  SelectSeq(SelectSeq(instruments, LAMBDA x : x.dte = tgt /\ x.is_active),
            LAMBDA x : InBand(x.strike, OrElse(S, 1), FETCH_BAND))

\* one side of the chain, nearest strikes first, at most `cap` of them
Side(raw, type, S, cap) ==
  SliceFirst(SortBy(SelectSeq(raw, LAMBDA x : x.option_type = type),
                    LAMBDA x : Abs(x.strike - OrElse(S, x.strike))), cap)

\* putByStrike.get(strike): the price of the last put tick at that strike
\* with a usable price, undefined when there is none
putByStrike(in, puts, strike) ==
  LET ok == {i \in 1..Len(puts) : puts[i].strike = strike
                                    /\ Truthy(getMarkOrLast(in, puts[i]))}
  IN IF ok = {} THEN Null
     ELSE getMarkOrLast(in, puts[CHOOSE i \in ok : \A j \in ok : j <= i])

\* the smile point of one call tick, <<>> when the tick is skipped
CallPoint(in, inst, puts, S) ==
  LET price == getMarkOrLast(in, inst)
      p     == putByStrike(in, puts, inst.strike)
      px    == IF Truthy(price) THEN price
               ELSE IF Truthy(p) THEN callFromPut(p, OrElse(S, 0), inst.strike)
               ELSE Null
      iv    == IF ~Truthy(px) \/ px <= 0 THEN Null ELSE SolvedVol(in, inst, px)
  IN IF Truthy(iv) THEN <<[strike |-> inst.strike, iv |-> clamp(iv, SMILE_IV_MIN, SMILE_IV_MAX)]>>
     ELSE <<>>

\* the smile point of one put tick, solved through parity inside impliedVol
PutPoint(in, inst, S) ==
  LET price == getMarkOrLast(in, inst)
      iv    == IF ~Truthy(price) \/ price <= 0 THEN Null ELSE SolvedVol(in, inst, price)
  IN IF Truthy(iv) THEN <<[strike |-> inst.strike, iv |-> clamp(iv, SMILE_IV_MIN, SMILE_IV_MAX)]>>
     ELSE <<>>

RECURSIVE Flatten(_)
Flatten(ss) == IF ss = <<>> THEN <<>> ELSE ss[1] \o Flatten(Tail(ss))

\* the points left in the order they were pushed
AsPushed(smile) == smile

\* smile.sort((a,b) => a.strike - b.strike)
SortSmile(smile) == SortBy(smile, LAMBDA p : p.strike)

\* smile.reduce((best,p) => |p.strike-S| < |best.strike-S| ? p : best, smile[0])
StrikeGap(p, S) == Abs(p.strike - OrElse(S, p.strike))

RECURSIVE AtmReduce(_, _, _, _)
\* the fold, p running over smile[i..] with best so far
AtmReduce(smile, S, i, best) ==
  IF i > Len(smile) THEN best
  ELSE AtmReduce(smile, S, i + 1,
                 IF StrikeGap(smile[i], S) < StrikeGap(best, S) THEN smile[i] ELSE best)

\* a fold that would let a later point at the same distance win
AtmPointLastWins(smile, S) ==
  LET i == CHOOSE k \in 1..Len(smile) :
             /\ \A j \in 1..Len(smile) : StrikeGap(smile[k], S) <= StrikeGap(smile[j], S)
             /\ \A j \in (k + 1)..Len(smile) : StrikeGap(smile[j], S) > StrikeGap(smile[k], S)
  IN smile[i]

AtmPoint(smile, S) == AtmReduce(smile, S, 1, smile[1])

\* the vega-weighted mean of the points within VEGA_BAND of spot, of the
\* whole smile when none is
VegaWeighted(smile, S) ==
  LET band20 == SelectSeq(smile, LAMBDA p : InBand(p.strike, OrElse(S, p.strike), VEGA_BAND))
      band   == IF band20 # <<>> THEN band20 ELSE smile
      w(p)   == Max(1, vega(OrElse(S, p.strike), p.strike))
      wsum   == SumSeq(MapSeq(band, w))
      ivsum  == SumSeq(MapSeq(band, LAMBDA p : w(p) * p.iv))
  IN ivsum \div wsum

\* the display band replaces the smile when it keeps at least MIN_SMILE points
DisplayCut(smile, S) ==
  LET displayBand == SelectSeq(smile, LAMBDA p : InBand(p.strike, OrElse(S, p.strike), DISPLAY_BAND))
  IN IF Len(displayBand) >= MIN_SMILE THEN displayBand ELSE smile

RealSmile(in, S, cap) ==
  LET instruments == getInstruments(in)
      prox == byProx(instruments)
  IN IF instruments = <<>> \/ prox = <<>> THEN NoSmile
     ELSE
       LET tgt    == prox[1].dte
           raw    == rawAtT(instruments, tgt, S)
           calls  == Side(raw, "call", S, cap)
           puts   == Side(raw, "put", S, cap)
           fromCalls == Flatten(MapSeq(calls, LAMBDA inst : CallPoint(in, inst, puts, S)))
           fromPuts  == IF Len(fromCalls) < MIN_SMILE
                        THEN Flatten(MapSeq(puts, LAMBDA inst : PutPoint(in, inst, S)))
                        ELSE <<>>
           smile  == SortSmile(fromCalls \o fromPuts)
       IN IF smile = <<>>
          THEN [NoSmile EXCEPT !.days_to_expiry = tgt]
          ELSE [smile |-> DisplayCut(smile, S),
                atm_iv |-> AtmPoint(smile, S).iv,
                vega_weighted_iv |-> VegaWeighted(smile, S),
                days_to_expiry |-> tgt]

(***************************************************************************)
(* The synthetic smile: n = 7 strikes S*(1 - 0.35 + 0.70*i/6), i = 0..6,   *)
(* that is S*(39 + 7i)/60, rounded; m = ln(K/S) depends on i alone, and    *)
(* SkewFactor[i+1] is 1000*(1 + 2*m*m - 0.25*m) for that i.                *)
(***************************************************************************)
SYNTH_N == 7
SkewFactor == <<1479, 1208, 1062, 1000, 997, 1036, 1105>>

buildSyntheticSmile(S, atm) ==
  [k \in 1..SYNTH_N |->
     [strike |-> RoundDiv(S * (39 + 7 * (k - 1)), 60),
      iv |-> clamp(Max(SMILE_IV_MIN, (atm * SkewFactor[k]) \div 1000),
                   SMILE_IV_MIN, SMILE_IV_MAX)]]

\* part_004 lays the synthetic smile around the last stored spot; with a
\* stored spot of 0 every K is 0, ln(0) is -Infinity and every iv clamps to 3.0
SyntheticPart4(Sguess, baseIV) ==
  [k \in 1..SYNTH_N |->
     [strike |-> RoundDiv(Sguess * (39 + 7 * (k - 1)), 60),
      iv |-> IF Sguess = 0 THEN SMILE_IV_MAX
             ELSE clamp(Max(SMILE_IV_MIN, (OrElse(baseIV, DEFAULT_IV) * SkewFactor[k]) \div 1000),
                        SMILE_IV_MIN, SMILE_IV_MAX)]]

(***************************************************************************)
(* Spot resolution                                                         *)
(***************************************************************************)
\* Number(last.spot) || null
LastSpot(series) == OrElse(ToNumber(Last(series).spot), Null)

\* the median strike of the active instruments at the expiry nearest to
\* TARGET_DAYS, null when there is none
MidStrike(instruments) ==
  LET prox == byProx(instruments)
  IN IF prox = <<>> THEN Null
     ELSE LET atT == SelectSeq(instruments, LAMBDA x : x.dte = prox[1].dte /\ x.is_active)
              strikes == SortBy(MapSeq(atT, LAMBDA x : x.strike), LAMBDA k : k)
          IN strikes[(Len(strikes) \div 2) + 1]

\* S after the feeds and the stored series (both scripts); cg is not Throw
SpotFromFeeds(series, in) ==
  LET S1 == getSpotFromCoingecko(in)
      S2 == IF ~Truthy(S1) THEN getSpotFromDeribitIndex(in) ELSE S1
  IN IF ~Truthy(S2) /\ series # <<>> THEN LastSpot(series) ELSE S2

\* fetchOptionsData.js: then the strikes, then the constant
ResolveSpot(series, in) ==
  LET S3 == SpotFromFeeds(series, in)
      S4 == IF ~Truthy(S3) /\ getInstruments(in) # <<>>
            THEN Coalesce(MidStrike(getInstruments(in)), S3) ELSE S3
  IN IF ~Truthy(S4) THEN DEFAULT_SPOT ELSE S4

(***************************************************************************)
(* The volatility of a run that built no real smile                        *)
(***************************************************************************)
\* the stored volatility of a row as the fallback reads it: Number(vw ?? atm)
RowIv(p) == ToNumber(Coalesce(p.vega_weighted_iv, p.atm_iv))

\* rv: the CoinGecko estimate, else the mean of the last RV_WINDOW stored IVs
RealizedOrOwn(series, in) ==
  LET rv == getRealizedVol30d(in)
      y  == SelectSeq(MapSeq(SliceLast(series, RV_WINDOW), RowIv), IsFinite)
  IN IF rv = Null /\ series # <<>> /\ y # <<>> THEN SumSeq(y) \div Len(y) ELSE rv

\* fetchOptionsData.js: rv, else 0.5
FallbackIv(series, in) ==
  LET rv == RealizedOrOwn(series, in)
  IN clamp(IF rv # Null THEN rv ELSE DEFAULT_IV, IV_FLOOR, IV_CEIL)

\* part_004: rv, else the last stored IV, else 0.5
FallbackIvPart4(series, in) ==
  LET rv == RealizedOrOwn(series, in)
      val == IF rv # Null THEN rv
             ELSE IF series # <<>>
                  THEN Coalesce(Last(series).vega_weighted_iv,
                                Coalesce(Last(series).atm_iv, DEFAULT_IV))
                  ELSE DEFAULT_IV
  IN clamp(val, IV_FLOOR, IV_CEIL)

(***************************************************************************)
(* Persisted state                                                         *)
(***************************************************************************)
VARIABLES
  script,       \* which version of scripts/fetchOptionsData.js is deployed
  ALWAYS_TICK,  \* part_004: process.env.ALWAYS_TICK is not '0'
  clock,        \* Date.now(), one unit per minute
  series,       \* docs/<sym>/cvi_timeseries.json
  cvi,          \* docs/<sym>/cvi.json, the smile
  smile_meta,   \* docs/<sym>/smile_meta.json
  run           \* what the last run of buildForAsset saw and did

pipeVars == <<script, ALWAYS_TICK, clock, series, cvi, smile_meta, run>>

\* httpGet and the fetcher that called it
VARIABLES
  caller,    \* the fetcher awaiting httpGet
  retries,   \* httpGet's option of that name
  httpI,     \* httpGet's loop index i
  hpc,       \* where httpGet stands
  attempts,  \* how many times axios.get was called
  fails,     \* e.response.status of each failed attempt, in order
  backoff,   \* the delays slept, in ms, in order
  source     \* what the fetcher made of the call

httpVars == <<caller, retries, httpI, hpc, attempts, fails, backoff, source>>

\* pMapLimit(items, limit, iter)
VARIABLES
  items,     \* items.length
  limit,     \* the limit argument
  idx,       \* the shared index
  wpc,       \* where each worker stands
  cur,       \* the index each worker took last
  ret        \* the indices whose result is stored

poolVars == <<items, limit, idx, wpc, cur, ret>>

\* impliedVol
VARIABLES
  ivVariant, \* the file whose impliedVol runs
  ivIn,      \* its arguments
  sigma,     \* the local s (sigma in part_011), in 1e-4
  iter,      \* the loop index i
  ivPc,      \* where the function stands
  ivRet,     \* the value returned
  divisor,   \* the vega of the last Newton step taken, in 1e-8
  exhausted  \* the loop ran out of iterations

ivVars == <<ivVariant, ivIn, sigma, iter, ivPc, ivRet, divisor, exhausted>>

\* no call of httpGet under way
HttpIdle ==
  /\ caller = "none" /\ retries = 0 /\ httpI = 0 /\ hpc = "idle"
  /\ attempts = 0 /\ fails = <<>> /\ backoff = <<>> /\ source = "none"

\* no pool running
PoolIdle ==
  /\ items = 0 /\ limit = 0 /\ idx = 0 /\ wpc = <<>> /\ cur = <<>> /\ ret = {}

\* no call of impliedVol under way
IvIdle ==
  /\ ivVariant = "none" /\ ivIn = <<>> /\ sigma = Null /\ iter = 0
  /\ ivPc = "idle" /\ ivRet = Null /\ divisor = Null /\ exhausted = FALSE

\* no run of the pipeline made
PipeIdle ==
  /\ clock = 0
  /\ series = [a \in ASSETS |-> <<>>]
  /\ cvi = [a \in ASSETS |-> <<>>]
  /\ smile_meta = [a \in ASSETS |-> [synthetic |-> FALSE, source |-> "none"]]

\* one call of a function of the program that keeps no state
VARIABLES
  call,      \* the function called and its arguments
  result     \* what it returned

pureVars == <<call, result>>

\* no such call made
PureIdle == call = [op |-> "none"] /\ result = [done |-> FALSE]

\* scripts/strategyEngine.js: the files it reads and writes
VARIABLES
  manifest,     \* the symbols of docs/cvi_manifest.json, in its order
  assetOrders,  \* docs/<symbol>/orders.json
  riskJson,     \* docs/<symbol>/risk.json
  ordersFeed,   \* docs/orders.json
  engineRun     \* the last run: its count, what it read and what it made

engineVars == <<manifest, assetOrders, riskJson, ordersFeed, engineRun>>

\* the strategy engine never ran
EngineIdle ==
  /\ manifest = <<>> /\ assetOrders = <<>> /\ riskJson = <<>>
  /\ ordersFeed = <<>> /\ engineRun = [n |-> 0]

\* main of scripts/fetchOptionsData.js: the batch over the tracked assets
VARIABLES
  batchScript,  \* the version of the script whose main runs
  selected,     \* ASSETS
  bpc,          \* where main stands
  bi,           \* the position of sym in ASSETS
  attempted,    \* the calls of buildForAsset that settled, in order
  results,      \* the symbols of results
  manifestJson  \* the symbols of docs/cvi_manifest.json

batchVars == <<batchScript, selected, bpc, bi, attempted, results, manifestJson>>

\* no batch started
BatchIdle ==
  /\ batchScript = "none" /\ selected = <<>> /\ bpc = "idle" /\ bi = 0
  /\ attempted = <<>> /\ results = <<>> /\ manifestJson = <<>>

\* one call of writeJSON on a file of an asset
VARIABLES
  fsWriter,  \* the writeJSON called
  fsFile,    \* the file it is called on
  target,    \* the content of that file, as a reader finds it
  tmp,       \* the content of the file beside it, ".tmp"
  fpc        \* where the call stands

fsVars == <<fsWriter, fsFile, target, tmp, fpc>>

\* no write under way
FsIdle ==
  /\ fsWriter = "none" /\ fsFile = "none" /\ target = <<>> /\ tmp = <<>>
  /\ fpc = "idle"

\* the components other than the pipeline, httpGet, pMapLimit and impliedVol
extVars == <<pureVars, engineVars, batchVars, fsVars>>
ExtIdle == PureIdle /\ EngineIdle /\ BatchIdle /\ FsIdle

BaseIdle ==
  /\ script = "fetchOptionsData" /\ ALWAYS_TICK = TRUE
  /\ PipeIdle
  /\ HttpIdle /\ PoolIdle /\ IvIdle

\* everything but the stateless call
coreVars == <<pipeVars, httpVars, poolVars, ivVars, engineVars, batchVars, fsVars>>
CoreIdle == BaseIdle /\ EngineIdle /\ BatchIdle /\ FsIdle

\* everything but the strategy engine
notEngineVars == <<pipeVars, httpVars, poolVars, ivVars, pureVars, batchVars, fsVars>>
NotEngineIdle == BaseIdle /\ PureIdle /\ BatchIdle /\ FsIdle

\* everything but the batch
notBatchVars == <<pipeVars, httpVars, poolVars, ivVars, pureVars, engineVars, fsVars>>
NotBatchIdle == BaseIdle /\ PureIdle /\ EngineIdle /\ FsIdle

\* everything but the file write
notFsVars == <<pipeVars, httpVars, poolVars, ivVars, pureVars, engineVars, batchVars>>
NotFsIdle == BaseIdle /\ PureIdle /\ EngineIdle /\ BatchIdle

\* writeJSON of a series: JSON has no NaN
JsonRow(p) == [t |-> p.t, spot |-> ToJSON(p.spot), days_to_expiry |-> ToJSON(p.days_to_expiry),
               atm_iv |-> ToJSON(p.atm_iv), vega_weighted_iv |-> ToJSON(p.vega_weighted_iv)]
JsonSeries(s) == MapSeq(s, JsonRow)

\* a cut that would keep the oldest points
TrimKeepsOldest(s) == IF Len(s) > MAX_TS_POINTS THEN SubSeq(s, 1, MAX_TS_POINTS) ELSE s

\* if (series.length > MAX_TS_POINTS) series = series.slice(series.length - MAX_TS_POINTS)
Trim(s) == IF Len(s) > MAX_TS_POINTS THEN SubSeq(s, Len(s) - MAX_TS_POINTS + 1, Len(s)) ELSE s

\* a seed that would carry the time of the new row
SeedAtNow(s, newRow) ==
  IF SEED_TWO_POINTS /\ s = <<>> THEN <<newRow, newRow>> ELSE <<newRow>>

\* the rows fetchOptionsData.js pushes: a seed one minute back on an empty series
RowsToPush(s, newRow) ==
  IF SEED_TWO_POINTS /\ s = <<>> THEN <<[newRow EXCEPT !.t = newRow.t - 1], newRow>>
  ELSE <<newRow>>

\* for a non-empty series; on an empty one it returns null (see TickRows)
cloneLastRowWithNewTime(s, now) ==
       [t |-> now, spot |-> Coalesce(Last(s).spot, Null),
        days_to_expiry |-> Coalesce(Last(s).days_to_expiry, TARGET_DAYS),
        atm_iv |-> Coalesce(Last(s).atm_iv, Null),
        vega_weighted_iv |-> Coalesce(Last(s).vega_weighted_iv, Null)]

SeedRow(now) == [t |-> now, spot |-> DEFAULT_SPOT, days_to_expiry |-> TARGET_DAYS,
                 atm_iv |-> SEED_IV, vega_weighted_iv |-> SEED_IV]

\* the rows part_004 pushes when the try block threw
TickRows(s, now, tick) ==
  IF ~tick THEN <<>>
  ELSE IF s # <<>> THEN <<cloneLastRowWithNewTime(s, now)>>
  ELSE <<SeedRow(now)>>

(***************************************************************************)
(* buildForAsset of fetchOptionsData.js, as a function of the stored       *)
(* series, the sources' answers and the time.  `threw` says that the       *)
(* promise rejected: nothing was written.                                  *)
(***************************************************************************)
\* the run once atm_iv and vega_weighted_iv are settled: the smile that is
\* written, the new row, the rows pushed and the series written
MainAfterIv(s, now, S, rs, atm, vw, base) ==
  [threw |-> FALSE, S |-> S,
   pushed |-> JsonSeries(RowsToPush(s,
                [t |-> now, spot |-> S,
                 days_to_expiry |-> Coalesce(rs.days_to_expiry, TARGET_DAYS),
                 atm_iv |-> atm, vega_weighted_iv |-> vw])),
   series |-> JsonSeries(Trim(s \o RowsToPush(s,
                [t |-> now, spot |-> S,
                 days_to_expiry |-> Coalesce(rs.days_to_expiry, TARGET_DAYS),
                 atm_iv |-> atm, vega_weighted_iv |-> vw]))),
   wroteSmile |-> TRUE,
   smile |-> IF rs.smile = <<>> /\ IsFinite(base) /\ base > 0
             THEN buildSyntheticSmile(S, clamp(base, IV_FLOOR, IV_CEIL))
             ELSE rs.smile,
   synthetic |-> rs.smile = <<>> /\ IsFinite(base) /\ base > 0,
   real |-> rs.smile # <<>>]

\* the run once the real smile was attempted: the fallback volatility when
\* it gave neither atm_iv nor vega_weighted_iv
MainAfterSmile(s, in, now, S, rs, fb) ==
  IF rs.atm_iv = Null /\ rs.vega_weighted_iv = Null
  THEN MainAfterIv(s, now, S, rs, fb, fb, ToNumber(Coalesce(fb, fb)))
  ELSE MainAfterIv(s, now, S, rs, rs.atm_iv, rs.vega_weighted_iv,
                   ToNumber(Coalesce(rs.vega_weighted_iv, rs.atm_iv)))

\* the run once the spot is resolved
MainAfterSpot(s, in, now, S) ==
  MainAfterSmile(s, in, now, S, RealSmile(in, S, 180), FallbackIv(s, in))

BuildMain(s, in, now) ==
  IF getSpotFromCoingecko(in) = Throw
  THEN [threw |-> TRUE, S |-> Null, pushed |-> <<>>, series |-> s, wroteSmile |-> FALSE,
        smile |-> <<>>, synthetic |-> FALSE, real |-> FALSE]
  ELSE MainAfterSpot(s, in, now, ResolveSpot(s, in))

(***************************************************************************)
(* buildForAsset of part_004: the body runs inside try; the catch ticks    *)
(* the last row; the trim and the write follow in every case.              *)
(***************************************************************************)
\* the run once atm_iv and vega_weighted_iv are settled
TickAfterIv(s, now, spot, rs, atm, vw) ==
  [threw |-> FALSE, S |-> spot,
   pushed |-> JsonSeries(<<[t |-> now, spot |-> spot,
                 days_to_expiry |-> Coalesce(rs.days_to_expiry, TARGET_DAYS),
                 atm_iv |-> atm, vega_weighted_iv |-> vw]>>),
   series |-> JsonSeries(Trim(Append(s, [t |-> now, spot |-> spot,
                 days_to_expiry |-> Coalesce(rs.days_to_expiry, TARGET_DAYS),
                 atm_iv |-> atm, vega_weighted_iv |-> vw]))),
   wroteSmile |-> TRUE,
   smile |-> IF rs.smile = <<>>
             THEN SyntheticPart4(IF s = <<>> THEN DEFAULT_SPOT
                                 ELSE Coalesce(Last(s).spot, DEFAULT_SPOT),
                                 ToNumber(Coalesce(vw, atm)))
             ELSE rs.smile,
   synthetic |-> rs.smile = <<>>,
   real |-> rs.smile # <<>>]

\* the run once the real smile was attempted
TickAfterSmile(s, in, now, spot, rs, fb) ==
  IF rs.atm_iv = Null /\ rs.vega_weighted_iv = Null
  THEN TickAfterIv(s, now, spot, rs, fb, fb)
  ELSE TickAfterIv(s, now, spot, rs, rs.atm_iv, rs.vega_weighted_iv)

\* the run once S is resolved; the row's spot is S ?? last.spot, or S ?? 100
TickAfterSpot(s, in, now, S) ==
  TickAfterSmile(s, in, now,
                 IF s # <<>> THEN Coalesce(S, Last(s).spot) ELSE Coalesce(S, DEFAULT_SPOT),
                 RealSmile(in, S, 80), FallbackIvPart4(s, in))

BuildTick(s, in, now, tick) ==
  IF getSpotFromCoingecko(in) = Throw
  THEN [threw |-> TRUE, S |-> Null, pushed |-> JsonSeries(TickRows(s, now, tick)),
        series |-> JsonSeries(Trim(s \o TickRows(s, now, tick))), wroteSmile |-> FALSE,
        smile |-> <<>>, synthetic |-> FALSE, real |-> FALSE]
  ELSE TickAfterSpot(s, in, now, SpotFromFeeds(s, in))

(***************************************************************************)
(* What the sources may answer in one run                                  *)
(***************************************************************************)
Chain == <<
  [instrument_name |-> 1, strike |-> 120, option_type |-> "call", dte |-> 30, is_active |-> TRUE],
  [instrument_name |-> 2, strike |-> 120, option_type |-> "put",  dte |-> 30, is_active |-> TRUE],
  [instrument_name |-> 3, strike |-> 100, option_type |-> "call", dte |-> 30, is_active |-> TRUE],
  [instrument_name |-> 4, strike |-> 90,  option_type |-> "call", dte |-> 7,  is_active |-> TRUE] >>
Names == {Chain[i].instrument_name : i \in 1..Len(Chain)}

NoQuotes == [n \in Names |-> Null]
QuoteProfiles == { NoQuotes,
                   [n \in Names |-> 5],
                   [n \in Names |-> IF n = 2 THEN 5 ELSE Null],
                   [n \in Names |-> IF n = 2 THEN Null ELSE 5] }
NoIv == [n \in Names |-> Null]
IvProfiles == { NoIv, [n \in Names |-> IF n = 3 THEN 800 ELSE 400] }

CgSpots == {Throw, Null, -1, 125}
DeribitSpots == {Null, 0, 110}
RealizedVols == {Null, NaN, 600}

Inputs ==
  { in \in [useCG : BOOLEAN, cg : CgSpots, dbt : DeribitSpots,
            instruments : {<<>>, Chain}, quotes : QuoteProfiles, iv : IvProfiles,
            rv : RealizedVols] :
      \* answers that are never asked for are left at null
      /\ ~in.useCG => in.cg = Null /\ in.rv = Null
      /\ in.cg = Throw => in.rv = Null /\ in.dbt = Null /\ in.instruments = <<>>
      /\ Truthy(in.cg) /\ in.cg # Throw => in.dbt = Null
      /\ in.instruments = <<>> => in.quotes = NoQuotes
      /\ in.quotes = NoQuotes => in.iv = NoIv }

\* every source of the run failed or answered nothing
AllFailed(in) ==
  /\ getSpotFromCoingecko(in) \in {Null, Throw}
  /\ getSpotFromDeribitIndex(in) = Null
  /\ getInstruments(in) = <<>>
  /\ getRealizedVol30d(in) = Null

NoRun == [sym |-> "none", threw |-> FALSE, prev |-> <<>>, pushed |-> <<>>, cg |-> Null,
          dbt |-> Null, mid |-> Null, allFailed |-> FALSE, S |-> Null,
          wroteSmile |-> FALSE, real |-> FALSE, synthetic |-> FALSE]

Observed(sym, in, r) ==
  [sym |-> sym, threw |-> r.threw, prev |-> series[sym], pushed |-> r.pushed,
   cg |-> getSpotFromCoingecko(in), dbt |-> getSpotFromDeribitIndex(in),
   mid |-> IF getInstruments(in) = <<>> THEN Null ELSE MidStrike(getInstruments(in)),
   allFailed |-> AllFailed(in), S |-> r.S,
   wroteSmile |-> r.wroteSmile, real |-> r.real, synthetic |-> r.synthetic]

Commit(sym, in, r) ==
  /\ clock' = clock + 1
  /\ series' = [series EXCEPT ![sym] = r.series]
  /\ cvi' = IF r.wroteSmile THEN [cvi EXCEPT ![sym] = r.smile] ELSE cvi
  /\ smile_meta' = IF r.wroteSmile
                   THEN [smile_meta EXCEPT ![sym] =
                           [synthetic |-> r.synthetic,
                            source |-> IF r.synthetic THEN "synthetic" ELSE "real"]]
                   ELSE smile_meta
  /\ run' = Observed(sym, in, r)
  /\ UNCHANGED <<script, ALWAYS_TICK, httpVars, poolVars, ivVars, extVars>>

\* one run of buildForAsset(sym) of fetchOptionsData.js, the sources
\* answering one of I, while fewer than maxRuns runs were made
BuildForAsset(sym, I, maxRuns) ==
  /\ script = "fetchOptionsData"
  /\ clock < maxRuns
  /\ \E in \in I : Commit(sym, in, BuildMain(series[sym], in, clock + 1))

\* one run of buildForAsset(sym) of part_004
BuildForAssetTick(sym, I, maxRuns) ==
  /\ script = "part_004"
  /\ clock < maxRuns
  /\ \E in \in I : Commit(sym, in, BuildTick(series[sym], in, clock + 1, ALWAYS_TICK))

Init ==
  /\ script \in Scripts
  /\ ALWAYS_TICK \in BOOLEAN
  /\ script = "fetchOptionsData" => ALWAYS_TICK
  /\ PipeIdle
  /\ run = NoRun
  /\ HttpIdle /\ PoolIdle /\ IvIdle /\ ExtIdle

Next ==
  \/ \E sym \in ASSETS : BuildForAsset(sym, Inputs, MaxRuns)
  \/ \E sym \in ASSETS : BuildForAssetTick(sym, Inputs, MaxRuns)

vars == <<pipeVars, httpVars, poolVars, ivVars, extVars>>
Spec == Init /\ [][Next]_vars

(***************************************************************************)
(* Long histories: the same pipeline run often enough for the series to    *)
(* outgrow MAX_TS_POINTS, the sources answering one of a few ways.         *)
(***************************************************************************)
LongRuns == MAX_TS_POINTS + 3
LongInputs ==
  { in \in Inputs :
      /\ in.instruments = <<>>
      /\ in.dbt = Null
      /\ in.rv = Null
      /\ in.cg \in {Throw, Null, 125} }

NextLong ==
  \/ \E sym \in ASSETS : BuildForAsset(sym, LongInputs, LongRuns)
  \/ \E sym \in ASSETS : BuildForAssetTick(sym, LongInputs, LongRuns)

SpecLong == Init /\ [][NextLong]_vars

(***************************************************************************)
(* httpGet(url, {retries, baseDelay}) and the fetchers that call it, one   *)
(* step per await.                                                         *)
(***************************************************************************)
DEFAULT_RETRIES == 4
BASE_DELAY == 800
JITTER_MS == 300

\* e?.response?.status of a failure that carries no response (a timeout,
\* a refused or reset connection): undefined
NoStatus == Null

\* what one axios.get may end with: a response, or a failure and its status
Ok == 200
Outcomes == {Ok, NoStatus, 404, 429, 499, 500, 599, 600}

\* the fetchers: getSpotFromCoingecko awaits httpGet bare, the Deribit
\* fetchers await it inside try/catch
Callers == {"getSpotFromCoingecko", "getSpotFromDeribitIndex", "getMarkOrLast"}
Catches(c) == c # "getSpotFromCoingecko"

\* a test that would retry a failure without a response as well
RetryableTimeoutToo(s) == s = NoStatus \/ s = 429 \/ (s >= 500 /\ s <= 599)
\* a test that would retry every failure that has a status
RetryableAnyError(s) == s # NoStatus /\ s >= 400
\* the test of the catch block: s===429 || (s>=500 && s<=599)
Retryable(s) == s = 429 \/ (s >= 500 /\ s <= 599)

\* 1000 * Math.pow(1.7, i)
Pow17 == <<1000, 1700, 2890, 4913, 8352, 14199>>
\* baseDelay * Math.pow(1.7, i) + Math.random() * 300, the random part
\* being jitter
Backoff(i, jitter) == (BASE_DELAY * Pow17[i + 1]) \div 1000 + jitter

InitHttp ==
  /\ script = "fetchOptionsData" /\ ALWAYS_TICK = TRUE
  /\ PipeIdle /\ run = NoRun
  /\ PoolIdle /\ IvIdle /\ ExtIdle
  /\ caller \in Callers
  /\ retries \in 0..DEFAULT_RETRIES
  /\ httpI = 0 /\ hpc = "try" /\ attempts = 0
  /\ fails = <<>> /\ backoff = <<>> /\ source = "pending"

\* the loop test passed: axios.get is awaited and settles
AxiosGet ==
  /\ hpc = "try"
  /\ httpI <= retries
  /\ attempts' = attempts + 1
  /\ \E o \in Outcomes :
       IF o = Ok
       THEN /\ hpc' = "returned"
            /\ UNCHANGED <<fails, backoff>>
       ELSE /\ fails' = Append(fails, o)
            /\ IF Retryable(o)
               THEN /\ hpc' = "delay"
                    /\ \E jitter \in {0, JITTER_MS - 1} :
                         backoff' = Append(backoff, Backoff(httpI, jitter))
               ELSE /\ hpc' = "thrown"
                    /\ UNCHANGED backoff
  /\ UNCHANGED <<caller, retries, httpI, source, pipeVars, poolVars, ivVars, extVars>>

\* the delay elapses: continue, i++, and the loop test
DelayElapsed ==
  /\ hpc = "delay"
  /\ httpI' = httpI + 1
  /\ hpc' = IF httpI + 1 <= retries THEN "try" ELSE "thrown"
  /\ UNCHANGED <<caller, retries, attempts, fails, backoff, source,
                 pipeVars, poolVars, ivVars, extVars>>

\* the fetcher resumes: it has its answer, or its catch makes the source
\* unavailable (null), or the error leaves it
FetcherSettles ==
  /\ hpc \in {"returned", "thrown"}
  /\ source = "pending"
  /\ source' = IF hpc = "returned" THEN "answered"
               ELSE IF Catches(caller) THEN "unavailable" ELSE "rejected"
  /\ UNCHANGED <<caller, retries, httpI, hpc, attempts, fails, backoff,
                 pipeVars, poolVars, ivVars, extVars>>

NextHttp ==
  \/ AxiosGet
  \/ DelayElapsed
  \/ FetcherSettles

SpecHttp == InitHttp /\ [][NextHttp]_vars

\* axios.get settles within its timeout and a timer fires: the event loop
\* runs every continuation that is ready
FairHttp == SpecHttp /\ WF_vars(NextHttp)

(***************************************************************************)
(* pMapLimit(items, limit, iter): the workers share idx; a worker runs     *)
(* without interruption from one await to the next.                        *)
(***************************************************************************)
MaxItems == 4
MaxLimit == 3

\* as many workers as there are items
WorkersPerItem(lim, n) == n
\* Array(Math.min(limit, items.length))
Workers(lim, n) == Min(lim, n)

InitPool ==
  /\ script = "fetchOptionsData" /\ ALWAYS_TICK = TRUE
  /\ PipeIdle /\ run = NoRun
  /\ HttpIdle /\ IvIdle /\ ExtIdle
  /\ items \in 0..MaxItems
  /\ limit \in 0..MaxLimit
  /\ idx = 0
  /\ wpc = [w \in 1..Workers(limit, items) |-> "loop"]
  /\ cur = [w \in 1..Workers(limit, items) |-> Null]
  /\ ret = {}

\* const i = idx++; if (i >= items.length) break; then iter(items[i], i)
\* is called and awaited
WorkerTakes(w) ==
  /\ wpc[w] = "loop"
  /\ idx' = idx + 1
  /\ IF idx >= items
     THEN /\ wpc' = [wpc EXCEPT ![w] = "done"]
          /\ UNCHANGED cur
     ELSE /\ wpc' = [wpc EXCEPT ![w] = "await"]
          /\ cur' = [cur EXCEPT ![w] = idx]
  /\ UNCHANGED <<items, limit, ret, pipeVars, httpVars, ivVars, extVars>>

\* the promise of iter settles: ret[i] = its value, and the loop goes on
IterSettles(w) ==
  /\ wpc[w] = "await"
  /\ ret' = ret \cup {cur[w]}
  /\ wpc' = [wpc EXCEPT ![w] = "loop"]
  /\ UNCHANGED <<items, limit, idx, cur, pipeVars, httpVars, ivVars, extVars>>

NextPool ==
  \/ \E w \in DOMAIN wpc : WorkerTakes(w)
  \/ \E w \in DOMAIN wpc : IterSettles(w)

SpecPool == InitPool /\ [][NextPool]_vars

(***************************************************************************)
(* impliedVol, one step per iteration of its Newton loop.  Volatilities    *)
(* are in 1e-4 and vegas in 1e-8.  bsCall and vega are not computed: each  *)
(* iteration draws what they answer, NaN whenever an argument is NaN.      *)
(***************************************************************************)
MAX_ITERS == 100
SIGMA_MIN == 1
SIGMA_MAX == 50000
GUESS_MAX == 30000
VEGA_EPS == 1
SIGMA_0_PART11 == 3000
SIGMA_MAX_PART11 == 30000

IvVariants == {"fetchOptionsData", "part_004", "part_011"}

IvInputs ==
  { [price |-> 5,   S |-> 100, K |-> 100, T |-> 30, isCall |-> TRUE],
    [price |-> 0,   S |-> 100, K |-> 100, T |-> 30, isCall |-> TRUE],
    [price |-> 5,   S |-> 0,   K |-> 100, T |-> 30, isCall |-> TRUE],
    [price |-> 5,   S |-> 100, K |-> 100, T |-> 0,  isCall |-> TRUE],
    [price |-> 5,   S |-> 100, K |-> 120, T |-> 30, isCall |-> FALSE],
    [price |-> 25,  S |-> 100, K |-> 120, T |-> 30, isCall |-> FALSE],
    [price |-> NaN, S |-> 100, K |-> 100, T |-> 30, isCall |-> TRUE],
    [price |-> 5,   S |-> 100, K |-> NaN, T |-> 30, isCall |-> TRUE] }

\* x <= 0 as JavaScript decides it: false of NaN
NonPositive(x) == x # NaN /\ x <= 0

\* callPx: the price of a call, a put's through parity
CallPx(in) ==
  IF in.isCall THEN in.price
  ELSE IF NaN \in {in.price, in.S, in.K} THEN NaN
  ELSE callFromPut(in.price, in.S, in.K)

\* if (price<=0||S<=0||K<=0||T<=0) return null, and in fetchOptionsData.js
\* if (!isFinite(callPx) || callPx<=0) return null
GuardRejects(variant, in) ==
  \/ /\ variant # "part_011"
     /\ NonPositive(in.price) \/ NonPositive(in.S) \/ NonPositive(in.K) \/ NonPositive(in.T)
  \/ /\ variant = "fetchOptionsData"
     /\ CallPx(in) = NaN \/ NonPositive(CallPx(in))

\* the values a quotient may take before it is clamped: below the floor,
\* inside, above every ceiling
RawSigmas == {-5, 2500, 60000}

\* what the first guess may be
Guesses(variant, in) ==
  IF variant = "part_011" THEN {SIGMA_0_PART11}
  ELSE IF NaN \in {CallPx(in), in.S, in.T} THEN {NaN}
  ELSE IF CallPx(in) <= 0 THEN {clamp(-5, SIGMA_MIN, GUESS_MAX)}
  ELSE {clamp(x, SIGMA_MIN, GUESS_MAX) : x \in RawSigmas}

\* what model - callPx may be at volatility s: "nan", or within the
\* tolerance, or not
Diffs(in, s) ==
  IF NaN \in {in.price, in.S, in.K, in.T, s} \/ (~in.isCall /\ CallPx(in) = NaN)
  THEN {"nan"} ELSE {"small", "large"}

\* what vega may be at volatility s
Vegas(variant, in, s) ==
  IF variant = "part_011" /\ (NonPositive(in.T) \/ NonPositive(s)) THEN {0}
  ELSE IF NaN \in {in.S, in.K, in.T, s} THEN {NaN}
  ELSE {0, VEGA_EPS, 1000}

\* s - diff/v before the clamp
NewtonRaw(d) == IF d = "nan" THEN {NaN} ELSE RawSigmas

\* Math.min(hi, Math.max(lo, x)) of part_011
clampPart11(x) == IF x = NaN THEN NaN ELSE Min(SIGMA_MAX_PART11, Max(SIGMA_MIN, x))

InitIV ==
  /\ script = "fetchOptionsData" /\ ALWAYS_TICK = TRUE
  /\ PipeIdle /\ run = NoRun
  /\ HttpIdle /\ PoolIdle /\ ExtIdle
  /\ ivVariant \in IvVariants
  /\ ivIn \in IvInputs
  /\ sigma = Null /\ iter = 0 /\ ivPc = "guard" /\ ivRet = Null
  /\ divisor = Null /\ exhausted = FALSE

IvKeep == UNCHANGED <<ivVariant, ivIn, pipeVars, httpVars, poolVars, extVars>>

\* the guards return null
IvRejects ==
  /\ ivPc = "guard"
  /\ GuardRejects(ivVariant, ivIn)
  /\ ivPc' = "done" /\ ivRet' = Null
  /\ UNCHANGED <<sigma, iter, divisor, exhausted>>
  /\ IvKeep

\* the first guess
IvGuess ==
  /\ ivPc = "guard"
  /\ ~GuardRejects(ivVariant, ivIn)
  /\ sigma' \in Guesses(ivVariant, ivIn)
  /\ ivPc' = "loop"
  /\ UNCHANGED <<iter, ivRet, divisor, exhausted>>
  /\ IvKeep

\* one pass of the loop in fetchOptionsData.js and part_004
IvIterate ==
  /\ ivPc = "loop"
  /\ ivVariant # "part_011"
  /\ iter < MAX_ITERS
  /\ \E d \in Diffs(ivIn, sigma), v \in Vegas(ivVariant, ivIn, sigma) :
       IF d = "small"
       THEN /\ ivPc' = "done" /\ ivRet' = clamp(sigma, SIGMA_MIN, SIGMA_MAX)
            /\ UNCHANGED <<sigma, iter, divisor, exhausted>>
       ELSE IF v = NaN \/ v <= VEGA_EPS
       THEN /\ ivPc' = "done" /\ ivRet' = Null
            /\ UNCHANGED <<sigma, iter, divisor, exhausted>>
       ELSE /\ \E x \in NewtonRaw(d) : sigma' = clamp(x, SIGMA_MIN, SIGMA_MAX)
            /\ divisor' = v
            /\ iter' = iter + 1
            /\ UNCHANGED <<ivPc, ivRet, exhausted>>
  /\ IvKeep

\* one pass of the loop in part_011: v = bsVega(...) || 1e-8
IvIteratePart11 ==
  /\ ivPc = "loop"
  /\ ivVariant = "part_011"
  /\ iter < MAX_ITERS
  /\ \E d \in Diffs(ivIn, sigma), v0 \in Vegas(ivVariant, ivIn, sigma) :
       LET v == OrElse(v0, VEGA_EPS)
       IN IF d = "small"
          THEN /\ ivPc' = "done" /\ ivRet' = sigma
               /\ UNCHANGED <<sigma, iter, divisor, exhausted>>
          ELSE /\ \E x \in NewtonRaw(d) : sigma' = clampPart11(x)
               /\ divisor' = v
               /\ iter' = iter + 1
               /\ UNCHANGED <<ivPc, ivRet, exhausted>>
  /\ IvKeep

\* the loop test fails: return null, or in part_011 the last sigma
IvLoopEnds ==
  /\ ivPc = "loop"
  /\ iter >= MAX_ITERS
  /\ ivPc' = "done"
  /\ exhausted' = TRUE
  /\ ivRet' = IF ivVariant = "part_011" THEN sigma ELSE Null
  /\ UNCHANGED <<sigma, iter, divisor>>
  /\ IvKeep

NextIV ==
  \/ IvRejects
  \/ IvGuess
  \/ IvIterate
  \/ IvIteratePart11
  \/ IvLoopEnds

SpecIV == InitIV /\ [][NextIV]_vars

(***************************************************************************)
(* The volatility recorded when no real smile was built, as each version   *)
(* of buildForAsset settles it from the realized-vol feed and the stored   *)
(* series.                                                                 *)
(***************************************************************************)
MaxStored == 2
DEFAULT_IV_PART10 == 200

FallbackVariants == {"fetchOptionsData", "part_004", "part_010"}

\* the volatilities a stored row may hold
StoredIvs == {Null, 300, 900}

StoredRows ==
  { [t |-> 0, spot |-> 110, days_to_expiry |-> TARGET_DAYS, atm_iv |-> a,
     vega_weighted_iv |-> v] : a \in StoredIvs, v \in StoredIvs }

RECURSIVE SeqsUpTo(_, _)
\* the sequences over S of length at most n
SeqsUpTo(S, n) ==
  IF n = 0 THEN {<<>>}
  ELSE SeqsUpTo(S, n - 1) \cup
       { Append(q, x) : q \in {r \in SeqsUpTo(S, n - 1) : Len(r) = n - 1}, x \in S }

\* part_010: rv as it is, else the last row's two volatilities, else the default
FallbackPart10(stored, in) ==
  IF getRealizedVol30d(in) # Null
  THEN [atm_iv |-> getRealizedVol30d(in), vega_weighted_iv |-> getRealizedVol30d(in)]
  ELSE IF stored # <<>> /\ (Last(stored).atm_iv # Null \/ Last(stored).vega_weighted_iv # Null)
  THEN [atm_iv |-> Last(stored).atm_iv, vega_weighted_iv |-> Last(stored).vega_weighted_iv]
  ELSE [atm_iv |-> DEFAULT_IV_PART10, vega_weighted_iv |-> DEFAULT_IV_PART10]

\* atm_iv and vega_weighted_iv after the fallback of the given version
FallbackOf(variant, stored, in) ==
  IF variant = "part_010" THEN FallbackPart10(stored, in)
  ELSE IF variant = "part_004"
  THEN [atm_iv |-> FallbackIvPart4(stored, in), vega_weighted_iv |-> FallbackIvPart4(stored, in)]
  ELSE [atm_iv |-> FallbackIv(stored, in), vega_weighted_iv |-> FallbackIv(stored, in)]

InitFallback ==
  /\ CoreIdle /\ run = NoRun
  /\ \E v \in FallbackVariants, q \in SeqsUpTo(StoredRows, MaxStored), rv \in RealizedVols :
       call = [op |-> "fallback", variant |-> v, series |-> q,
               in |-> [useCG |-> TRUE, rv |-> rv]]
  /\ result = [done |-> FALSE]

\* the run reaches the fallback with no smile and both volatilities null
SettleFallback ==
  /\ call.op = "fallback"
  /\ ~result.done
  /\ result' = [done |-> TRUE, iv |-> FallbackOf(call.variant, call.series, call.in)]
  /\ UNCHANGED <<call, coreVars>>

NextFallback == SettleFallback

SpecFallback == InitFallback /\ [][NextFallback]_vars

(***************************************************************************)
(* Claims about the per-asset pipeline                                     *)
(***************************************************************************)
Ran == run.sym # "none"

\* after is before plus exactly one new point, cut to the cap from the front
PlusOnePoint(before, after) ==
  LET n == Len(before) + 1
      k == Min(n, MAX_TS_POINTS)
  IN /\ Len(after) = k
     /\ \A i \in 1..(k - 1) : after[i] = before[n - k + i]
     /\ \A i \in 1..Len(before) : after[k] # before[i]

\* C1: every run of buildForAsset leaves the asset's series equal to the
\* previously stored series plus exactly one point (before trimming),
\* whether the fetches succeed, return nothing or throw, first run included.
C1_ExactlyOnePoint == Ran => PlusOnePoint(run.prev, series[run.sym])

\* C2: when every source fails for an asset with a non-empty series, the run
\* appends exactly one point whose spot, atm_iv and vega_weighted_iv equal
\* those of the previous last point.
C2_FailedRunClonesLast ==
  (Ran /\ run.allFailed /\ run.prev # <<>>) =>
     /\ PlusOnePoint(run.prev, series[run.sym])
     /\ Last(series[run.sym]).spot = Last(run.prev).spot
     /\ Last(series[run.sym]).atm_iv = Last(run.prev).atm_iv
     /\ Last(series[run.sym]).vega_weighted_iv = Last(run.prev).vega_weighted_iv

\* C3: after any run of buildForAsset for an asset, a first run in which the
\* whole pipeline fails included, the asset's persisted series is non-empty.
C3_NeverEmptySeries == Ran => series[run.sym] # <<>>

\* C4: the persisted series never holds more than MAX_TS_POINTS points, and
\* what a run leaves is the most recent MAX_TS_POINTS of the stored points
\* followed by the run's new ones, in their order: the oldest are dropped.
C4_BoundedGrowth ==
  [][\A a \in ASSETS :
       LET full == series[a] \o (IF run'.sym = a THEN run'.pushed ELSE <<>>)
           n == Len(full)
           k == Min(n, MAX_TS_POINTS)
       IN /\ Len(series'[a]) <= MAX_TS_POINTS
          /\ series'[a] = SubSeq(full, n - k + 1, n)]_vars

\* C4 witness: a run whose new point pushed an old one out
C4_Trimmed ==
  /\ Ran
  /\ run.pushed # <<>>
  /\ Len(run.prev) = MAX_TS_POINTS
  /\ Len(series[run.sym]) = MAX_TS_POINTS
  /\ series[run.sym][1] = run.prev[2]

\* a source's answer is a finite positive number
Positive(x) == x \notin {Null, NaN, Throw} /\ x > 0

\* C5: the spot of a run is the first finite positive answer among CoinGecko,
\* the Deribit index and the last stored spot, taken in that order, and the
\* constant 100 when there is none; it is always a finite positive number.
C5_SpotPrecedence ==
  Ran =>
    LET stored == IF run.prev = <<>> THEN Null ELSE Last(run.prev).spot
    IN /\ Positive(run.S)
       /\ run.S = IF Positive(run.cg) THEN run.cg
                  ELSE IF Positive(run.dbt) THEN run.dbt
                  ELSE IF Positive(stored) THEN stored
                  ELSE DEFAULT_SPOT

\* C10: the surface a run writes is never empty, it is synthesized whenever
\* the run built no real smile point, and it is tagged synthetic exactly
\* when its points were synthesized.
C10_SurfaceNeverEmpty ==
  (Ran /\ run.wroteSmile) =>
     /\ cvi[run.sym] # <<>>
     /\ smile_meta[run.sym].synthetic = ~run.real
     /\ smile_meta[run.sym].synthetic = run.synthetic

(***************************************************************************)
(* Claims about httpGet                                                    *)
(***************************************************************************)
HttpDone == hpc \in {"returned", "thrown"}

\* a failure that carries HTTP status 429 or 5xx
RateLimitOrServerError(s) == s = 429 \/ s \in 500..599

\* what every state of a call of httpGet satisfies
BoundedRetry ==
  /\ attempts <= retries + 1
  /\ Len(fails) <= attempts
  \* every attempt but the first follows a failure with status 429 or 5xx
  /\ \A k \in 1..(attempts - 1) : k <= Len(fails) /\ RateLimitOrServerError(fails[k])
  \* any other failure is thrown at once, no further attempt made
  /\ \A k \in 1..Len(fails) :
       ~RateLimitOrServerError(fails[k]) =>
          /\ k = attempts
          /\ hpc = "thrown"
          /\ Len(backoff) = k - 1

\* C6: httpGet makes a further attempt only after a failure with status 429
\* or 5xx, rethrows any other failure at once, makes at most retries+1
\* attempts, and in every execution ends by returning or throwing.
C6_BoundedRetry == []BoundedRetry /\ <>HttpDone

\* C6 witness: all retries+1 attempts of a default call were made and
\* failed with 429 or 5xx, and httpGet threw
C6_Exhausted ==
  /\ retries = DEFAULT_RETRIES
  /\ attempts = retries + 1
  /\ Len(fails) = attempts
  /\ hpc = "thrown"
  /\ RateLimitOrServerError(Last(fails))

\* C7 as stated: a call that failed by timeout is retried with backoff, and
\* its source is unavailable only after the retries are exhausted.
C7_TimeoutRetried ==
  \A k \in 1..Len(fails) :
     fails[k] = NoStatus =>
        /\ hpc # "thrown" \/ attempts = retries + 1
        /\ source = "unavailable" => attempts = retries + 1

\* C7 amended: a call that fails by timeout is not retried: the attempt is
\* httpGet's last, no delay is slept for it, httpGet throws, and a fetcher
\* that catches treats its source as unavailable after that attempt; only
\* failures with status 429 or 5xx are retried, after a backoff.
C7_TimeoutNotRetried ==
  /\ \A k \in 1..Len(fails) :
       fails[k] = NoStatus =>
          /\ k = Len(fails) /\ k = attempts
          /\ Len(backoff) = k - 1
          /\ hpc = "thrown"
          /\ source \in {"pending", IF Catches(caller) THEN "unavailable" ELSE "rejected"}
  /\ \A k \in 1..Len(backoff) : RateLimitOrServerError(fails[k])
  /\ \A k \in 1..Len(backoff) :
       /\ backoff[k] >= Backoff(k - 1, 0)
       /\ backoff[k] < Backoff(k - 1, JITTER_MS)

\* C7 witness: the first attempt of a call with retries left timed out and
\* the fetcher has made its source unavailable
C7_TimedOutOnce ==
  /\ retries = DEFAULT_RETRIES
  /\ fails = <<NoStatus>>
  /\ attempts = 1
  /\ Catches(caller)
  /\ source = "unavailable"

(***************************************************************************)
(* Claims about pMapLimit                                                  *)
(***************************************************************************)
\* the invocations of iter that are in flight
InFlight == {w \in DOMAIN wpc : wpc[w] = "await"}

\* C8: at most `limit` invocations of iter are in flight at any moment,
\* whatever the order in which the requests complete, and a request is
\* started only by a worker whose previous request has completed.
C8_AtMostKInFlight ==
  /\ [](Cardinality(InFlight) <= limit)
  /\ [][\A w \in DOMAIN wpc :
          (wpc'[w] = "await" /\ wpc[w] # "await") =>
             /\ wpc[w] = "loop"
             /\ cur[w] = Null \/ cur[w] \in ret
             /\ cur'[w] \notin {cur[v] : v \in InFlight}]_vars

\* C8 witness: more items than the limit, the limit reached, and a worker
\* on its second request
C8_PoolSaturated ==
  /\ items > limit
  /\ limit > 1
  /\ Cardinality(InFlight) = limit
  /\ ret # {}

(***************************************************************************)
(* Claims about impliedVol                                                 *)
(***************************************************************************)
\* C9: impliedVol ends after at most 100 iterations and returns null or a
\* finite volatility within [0.0001, 5], never NaN; it takes no Newton step
\* that divides by a vega of at most 1e-8; and it returns null when the
\* iterations run out.
C9_ImpliedVolTotal ==
  /\ iter <= MAX_ITERS
  /\ divisor = Null \/ (divisor # NaN /\ divisor > VEGA_EPS)
  /\ ivPc = "done" =>
       /\ ivRet = Null \/ (ivRet # NaN /\ ivRet >= SIGMA_MIN /\ ivRet <= SIGMA_MAX)
       /\ exhausted => ivRet = Null

(***************************************************************************)
(* Claims about the fallback volatility                                    *)
(***************************************************************************)
\* the default of each version
NeutralDefault(variant) == IF variant = "part_010" THEN DEFAULT_IV_PART10 ELSE DEFAULT_IV

\* the IV of a row: vega-weighted, else at the money
IvOf(p) == Coalesce(p.vega_weighted_iv, p.atm_iv)

\* C11: with no real smile, the recorded IV is the realized-vol estimate
\* when there is one; else the IV of the last stored point, unchanged; and
\* the default when nothing is stored.
C11_FallbackOrder ==
  (call.op = "fallback" /\ result.done) =>
     LET rv == call.in.rv
         q  == call.series
     IN /\ (rv \notin {Null, NaN}) => IvOf(result.iv) = rv
        /\ (rv = Null /\ q # <<>> /\ IvOf(Last(q)) # Null) => IvOf(result.iv) = IvOf(Last(q))
        /\ (rv = Null /\ q = <<>>) => IvOf(result.iv) = NeutralDefault(call.variant)

FirstNearest(smile, S) ==
  smile[CHOOSE i \in 1..Len(smile) :
          /\ \A j \in 1..Len(smile) : Abs(smile[i].strike - S) <= Abs(smile[j].strike - S)
          /\ \A j \in 1..(i - 1) : Abs(smile[j].strike - S) > Abs(smile[i].strike - S)]

\* C13: when the real smile is not empty, the recorded atm_iv is the IV of
\* the smile point whose strike is nearest to spot, the first such point of
\* the strike-sorted smile when several are equally near.
C13_AtmIsNearest ==
  (Ran /\ run.wroteSmile /\ run.real) =>
     Last(run.pushed).atm_iv = FirstNearest(cvi[run.sym], run.S).iv

\* C13 witness: two points of the real smile are equally near to spot and
\* carry different IVs
C13_TieAtTheMoney ==
  /\ Ran /\ run.wroteSmile /\ run.real
  /\ \E i, j \in 1..Len(cvi[run.sym]) :
       /\ i < j
       /\ cvi[run.sym][i].iv # cvi[run.sym][j].iv
       /\ Abs(cvi[run.sym][i].strike - run.S) = Abs(cvi[run.sym][j].strike - run.S)
       /\ \A k \in 1..Len(cvi[run.sym]) :
            Abs(cvi[run.sym][i].strike - run.S) <= Abs(cvi[run.sym][k].strike - run.S)

(***************************************************************************)
(* Signals: buildSignal of fetchOptionsData.js and the signal history that  *)
(* buildForAsset keeps.  Averages and percentiles are kept to a millionth   *)
(* of IV (MICRO of the model's thousandths); strength and size_hint are in  *)
(* hundredths.                                                              *)
(***************************************************************************)
MIN_SIGNAL_POINTS == 30
EMA_FAST == 20
EMA_SLOW == 100
SIGNAL_WINDOW == 252
SIGNAL_HISTORY == 50
MICRO == 1000
STRENGTH_CROSS == 50
STRENGTH_PCTL == 60

NoSignal == [null |-> TRUE]

\* Number(p.vega_weighted_iv ?? p.atm_iv), in millionths
MicroIv(p) == IF RowIv(p) = NaN THEN NaN ELSE RowIv(p) * MICRO

\* e = x*k + e*(1-k) with k = 2/(period+1); the first x as it is
EmaStep(e, x, period) ==
  IF e = Null THEN x ELSE RoundDiv(2 * x + (period - 1) * e, period + 1)

RECURSIVE EmaFrom(_, _, _, _)
\* the outputs for arr[i..], e being the average so far
EmaFrom(arr, period, i, e) ==
  IF i > Len(arr) THEN <<>>
  ELSE LET e2 == EmaStep(e, arr[i], period)
       IN <<e2>> \o EmaFrom(arr, period, i + 1, e2)

ema(arr, period) == EmaFrom(arr, period, 1, Null)

\* the interpolation on the array as given, with no sort
percentileUnsorted(arr, p) ==
  IF arr = <<>> THEN Null
  ELSE LET lo == (p * (Len(arr) - 1)) \div 100
           w  == (p * (Len(arr) - 1)) % 100
       IN IF w = 0 THEN arr[lo + 1]
          ELSE RoundDiv(arr[lo + 1] * (100 - w) + arr[lo + 2] * w, 100)

\* linear interpolation between the two ranks around (p/100)*(n-1)
percentile(arr, p) ==
  IF arr = <<>> THEN Null
  ELSE LET a  == SortBy(arr, LAMBDA x : x)
           lo == (p * (Len(arr) - 1)) \div 100
           w  == (p * (Len(arr) - 1)) % 100
       IN IF w = 0 THEN a[lo + 1]
          ELSE RoundDiv(a[lo + 1] * (100 - w) + a[lo + 2] * w, 100)

\* a test that would look at the last values only
AboveAtLast(fast, slow) == Last(fast) > Last(slow)

crossedUp(fast, slow) ==
  /\ fast[Len(fast) - 1] <= slow[Len(slow) - 1]
  /\ Last(fast) > Last(slow)

crossedDown(fast, slow) ==
  /\ fast[Len(fast) - 1] >= slow[Len(slow) - 1]
  /\ Last(fast) < Last(slow)

\* rec after the four ifs, the later ones overriding the earlier
Recommendation(up, down, atHi, atLo) ==
  IF atLo THEN "Long Volatility"
  ELSE IF atHi THEN "Short Volatility"
  ELSE IF down THEN "Short Volatility"
  ELSE IF up THEN "Long Volatility"
  ELSE "Hold"

\* the sum of the triggers' weights, not clamped
StrengthSummed(up, down, atHi, atLo) ==
  (IF up THEN STRENGTH_CROSS ELSE 0) + (IF down THEN STRENGTH_CROSS ELSE 0)
  + (IF atHi THEN STRENGTH_PCTL ELSE 0) + (IF atLo THEN STRENGTH_PCTL ELSE 0)

Strength(up, down, atHi, atLo) ==
  clamp((IF up THEN STRENGTH_CROSS ELSE 0) + (IF down THEN STRENGTH_CROSS ELSE 0)
        + (IF atHi THEN STRENGTH_PCTL ELSE 0) + (IF atLo THEN STRENGTH_PCTL ELSE 0),
        0, 100)

Reasons(up, down, atHi, atLo) ==
  (IF up THEN <<"EMA20 > EMA100 (bullish IV trend)">> ELSE <<>>)
  \o (IF down THEN <<"EMA20 < EMA100 (bearish IV trend)">> ELSE <<>>)
  \o (IF atHi THEN <<"IV at 90th percentile">> ELSE <<>>)
  \o (IF atLo THEN <<"IV at 10th percentile">> ELSE <<>>)

SignalFrom(now, lastIvMicro, fLast, sLast, up, down, atHi, atLo) ==
  [ts |-> now,
   recommendation |-> Recommendation(up, down, atHi, atLo),
   strength |-> Strength(up, down, atHi, atLo),
   size_hint |-> RoundDiv(100 + Strength(up, down, atHi, atLo), 2),
   reason |-> Reasons(up, down, atHi, atLo),
   last_iv |-> lastIvMicro, ema20 |-> fLast, ema100 |-> sLast]

SignalAfterEma(y, now, fast, slow, loP, hiP) ==
  SignalFrom(now, Last(y), Last(fast), Last(slow),
             crossedUp(fast, slow), crossedDown(fast, slow),
             IsFinite(hiP) /\ Last(y) >= ToNumber(hiP),
             IsFinite(loP) /\ Last(y) <= ToNumber(loP))

SignalAfterFilter(y, now) ==
  IF Len(y) < MIN_SIGNAL_POINTS THEN NoSignal
  ELSE SignalAfterEma(y, now, ema(y, EMA_FAST), ema(y, EMA_SLOW),
                      percentile(SliceLast(y, SIGNAL_WINDOW), 10),
                      percentile(SliceLast(y, SIGNAL_WINDOW), 90))

buildSignal(stored, now) ==
  SignalAfterFilter(SelectSeq(MapSeq(stored, MicroIv), IsFinite), now)

\* signals.json after the run: sig pushed and the history cut, or left alone
PushSignal(sigs, sig) ==
  IF sig = NoSignal THEN sigs ELSE SliceLast(Append(sigs, sig), SIGNAL_HISTORY)

\* the series the function is tried on: a run of rows with one IV, then up
\* to MaxTail rows of every kind a stored file can hold
MaxShort == 3
MaxTail == 2
SteadyRow ==
  [t |-> 0, spot |-> 110, days_to_expiry |-> TARGET_DAYS, atm_iv |-> 300,
   vega_weighted_iv |-> 300]
TailRows ==
  { [SteadyRow EXCEPT !.atm_iv = Null, !.vega_weighted_iv = Null],
    [SteadyRow EXCEPT !.atm_iv = NaN,  !.vega_weighted_iv = Null],
    [SteadyRow EXCEPT !.atm_iv = 900,  !.vega_weighted_iv = Null],
    [SteadyRow EXCEPT !.atm_iv = 900,  !.vega_weighted_iv = 100] }
SignalSeries ==
  { [i \in 1..n |-> SteadyRow] \o tail :
      n \in (MIN_SIGNAL_POINTS - MaxShort)..MIN_SIGNAL_POINTS,
      tail \in SeqsUpTo(TailRows, MaxTail) }
OldSignal(k) == [NoSignal EXCEPT !.null = FALSE] @@ [ts |-> 0 - k]
SignalHistories == { <<>>, [k \in 1..SIGNAL_HISTORY |-> OldSignal(SIGNAL_HISTORY - k)] }

\* series whose last IV lies strictly inside the spread of the window: a few
\* low and a few high points first, then steady ones
Outliers == 4
QuietRow(iv) == [SteadyRow EXCEPT !.atm_iv = iv, !.vega_weighted_iv = iv]
QuietSeries ==
  { [i \in 1..MIN_SIGNAL_POINTS |->
       IF i <= Outliers THEN QuietRow(100)
       ELSE IF i <= 2 * Outliers THEN QuietRow(900) ELSE SteadyRow] \o tail :
      tail \in {<<>>, <<QuietRow(100)>>, <<QuietRow(900)>>} }

InitSignal ==
  /\ CoreIdle /\ run = NoRun
  /\ \E stored \in SignalSeries \cup QuietSeries, sigs \in SignalHistories :
       call = [op |-> "signal", series |-> stored, sigs |-> sigs, now |-> 1]
  /\ result = [done |-> FALSE]

\* buildForAsset, the lines under "Signals"
SettleSignal ==
  /\ call.op = "signal" /\ ~result.done
  /\ result' = [done |-> TRUE,
                sig  |-> buildSignal(call.series, call.now),
                sigs |-> PushSignal(call.sigs, buildSignal(call.series, call.now))]
  /\ UNCHANGED <<call, coreVars>>

NextSignal == SettleSignal

SpecSignal == InitSignal /\ [][NextSignal]_vars

\* the points of a series that have a finite IV, the vega-weighted one or,
\* where that is null, the ATM one
FiniteIvPoints(stored) ==
  Cardinality({i \in 1..Len(stored) : IvOf(stored[i]) \notin {Null, NaN}})

\* C14: buildSignal returns null exactly when fewer than 30 points of the
\* series have a finite IV, and a Signal otherwise; when it returns null the
\* signal history is written back with the entries it had.
C14_NullIffFewFinitePoints ==
  (call.op = "signal" /\ result.done) =>
     /\ (result.sig = NoSignal) <=> (FiniteIvPoints(call.series) < MIN_SIGNAL_POINTS)
     /\ (result.sig = NoSignal) => (result.sigs = call.sigs)

(***************************************************************************)
(* scripts/strategyEngine.js, the engine of lines 1-184.  One run reads the *)
(* manifest and each asset's series, writes risk.json and orders.json of    *)
(* each asset and the cross-asset feed.                                     *)
(* Units: sigma_d and ERI in 1e-5, the EMAs in millionths of IV, the        *)
(* expected move in 1e-7 dollars, qty in whole units (the quotient cut).    *)
(***************************************************************************)
RISK_BUDGET_USD == 100
DEFAULT_LEVERAGE == 1
FAST_N == 20
SLOW_N == 100
PCT_WINDOW == 252
\* Math.sqrt(365) = 19.105, in thousandths
SQRT_365 == 19105
SD_SCALE == 100000
\* a dollar in the units of the expected move
MOVE_SCALE == 10000000
\* the floor 0.0001 of the horizon, in ten-thousandths of a day
HORIZON_FLOOR == 1
HORIZON_SCALE == 10000
ORDER_HISTORY == 100
RECENT_PER_ASSET == 5
FEED_LENGTH == 200

NoSize == [null |-> TRUE]
NoRisk == [null |-> TRUE]

\* Number.isFinite: no conversion of null
NumberIsFinite(x) == x \notin {Null, NaN}

\* arr[i]: undefined outside the array, which no test takes for finite
At(arr, i) == IF i \in 1..Len(arr) THEN arr[i] ELSE NaN

\* the engine's ema leaves e as it is at an entry that is not finite
EmaStepEngine(e, x, period) ==
  IF ~IsFinite(x) THEN e ELSE EmaStep(e, ToNumber(x), period)

RECURSIVE EmaEngineFrom(_, _, _, _)
EmaEngineFrom(arr, period, i, e) ==
  IF i > Len(arr) THEN <<>>
  ELSE LET e2 == EmaStepEngine(e, arr[i], period)
       IN <<e2>> \o EmaEngineFrom(arr, period, i + 1, e2)

emaEngine(arr, period) == EmaEngineFrom(arr, period, 1, Null)

percentileEngine(arr, p) == percentile(SelectSeq(arr, NumberIsFinite), p)

lastIv(row) == IF IsFinite(RowIv(row)) THEN RowIv(row) ELSE Null

\* isFinite(null) holds and null / SQRT_365 is 0
toSigmaDaily(iv) ==
  IF IsFinite(iv) THEN RoundDiv(ToNumber(iv) * SD_SCALE, SQRT_365) ELSE Null

toERI(iv) ==
  IF IsFinite(toSigmaDaily(iv)) THEN 100 * ToNumber(toSigmaDaily(iv)) ELSE Null

\* the horizon with no root taken
HorizonUnrooted(horizonDays) == Max(1, horizonDays * 100)

\* Math.sqrt(Math.max(0.0001, horizonDays)), in hundredths
SqrtHorizon(horizonDays) ==
  CHOOSE r \in 0..1000 : r * r = Max(HORIZON_FLOOR, horizonDays * HORIZON_SCALE)

SizeFrom(spot, sd, budget, horizonDays, expMove) ==
  [null |-> FALSE, horizon_days |-> horizonDays, risk_budget_usd |-> budget,
   expected_move_usd |-> expMove,
   qty |-> (budget * MOVE_SCALE) \div expMove,
   notional_usd |-> ((budget * MOVE_SCALE) \div expMove) * spot,
   leverage |-> DEFAULT_LEVERAGE]

sizeHint(spot, iv, budget, horizonDays) ==
  IF \/ ~IsFinite(spot) \/ ~IsFinite(toSigmaDaily(iv))
     \/ ToNumber(spot) <= 0 \/ ToNumber(toSigmaDaily(iv)) <= 0
  THEN NoSize
  ELSE SizeFrom(spot, toSigmaDaily(iv), budget, horizonDays,
                spot * toSigmaDaily(iv) * SqrtHorizon(horizonDays))

crossedUpEngine(fPrev, sPrev, fLast, sLast) ==
  /\ IsFinite(fPrev) /\ IsFinite(sPrev) /\ IsFinite(fLast) /\ IsFinite(sLast)
  /\ ToNumber(fPrev) <= ToNumber(sPrev) /\ ToNumber(fLast) > ToNumber(sLast)

crossedDownEngine(fPrev, sPrev, fLast, sLast) ==
  /\ IsFinite(fPrev) /\ IsFinite(sPrev) /\ IsFinite(fLast) /\ IsFinite(sLast)
  /\ ToNumber(fPrev) >= ToNumber(sPrev) /\ ToNumber(fLast) < ToNumber(sLast)

Order(t, sym, type, side, reason, size) ==
  [t |-> t, symbol |-> sym, type |-> type, side |-> side, reason |-> reason,
   qty |-> size.qty, price |-> "mkt", exchange |-> "paper",
   risk_budget_usd |-> size.risk_budget_usd, horizon_days |-> size.horizon_days]

\* an engine that would emit on the crossover alone
OrdersOnCrossOnly(t, sym, size, eri, up, down, p50, p90) ==
  IF size # NoSize /\ IsFinite(eri)
  THEN (IF up THEN <<Order(t, sym, "entry", "buy", "EMA20 > EMA100 and ERI <= median", size)>>
        ELSE <<>>)
       \o (IF down THEN <<Order(t, sym, "exit", "sell", "EMA20 < EMA100 and ERI >= 90th pct", size)>>
           ELSE <<>>)
  ELSE <<>>

\* the orders of one asset in one run
OrdersFor(t, sym, size, eri, up, down, p50, p90) ==
  IF size # NoSize /\ IsFinite(eri)
  THEN (IF up /\ ToNumber(eri) <= ToNumber(Coalesce(p50, eri))
        THEN <<Order(t, sym, "entry", "buy", "EMA20 > EMA100 and ERI <= median", size)>>
        ELSE <<>>)
       \o (IF down /\ p90 # Null /\ ToNumber(eri) >= p90
           THEN <<Order(t, sym, "exit", "sell", "EMA20 < EMA100 and ERI >= 90th pct", size)>>
           ELSE <<>>)
  ELSE <<>>

RiskOf(t, spot, iv, p10, p50, p90, fLast, sLast, size) ==
  [null |-> FALSE, t |-> t, spot |-> ToJSON(spot),
   sigma_d |-> ToJSON(toSigmaDaily(iv)), ERI |-> ToJSON(toERI(iv)),
   percentiles |-> [p10 |-> p10, p50 |-> p50, p90 |-> p90],
   ema |-> [fast |-> ToJSON(fLast), slow |-> ToJSON(sLast),
            fast_period |-> FAST_N, slow_period |-> SLOW_N],
   etv |-> size]

\* one asset once the percentiles and the averages are there
AssetAfterEma(sym, row, horizonDays, p10, p50, p90, fPrev, sPrev, fLast, sLast, size) ==
  [risk   |-> RiskOf(row.t, ToNumber(row.spot), lastIv(row), p10, p50, p90, fLast, sLast, size),
   up     |-> crossedUpEngine(fPrev, sPrev, fLast, sLast),
   down   |-> crossedDownEngine(fPrev, sPrev, fLast, sLast),
   orders |-> OrdersFor(row.t, sym, size, toERI(lastIv(row)),
                        crossedUpEngine(fPrev, sPrev, fLast, sLast),
                        crossedDownEngine(fPrev, sPrev, fLast, sLast), p50, p90)]

AssetAfterHistory(sym, row, horizonDays, window, fast, slow) ==
  AssetAfterEma(sym, row, horizonDays,
                percentileEngine(window, 10), percentileEngine(window, 50),
                percentileEngine(window, 90),
                At(fast, Len(fast) - 1), At(slow, Len(slow) - 1),
                At(fast, Len(fast)), At(slow, Len(slow)),
                sizeHint(ToNumber(row.spot), lastIv(row), RISK_BUDGET_USD, horizonDays))

eriOfRow(r) == toERI(RowIv(r))

\* the body of the loop for an asset whose series is not empty
EvalAsset(sym, stored, horizonDays) ==
  AssetAfterHistory(sym, Last(stored), horizonDays,
                    SelectSeq(SliceLast(MapSeq(stored, eriOfRow), PCT_WINDOW), NumberIsFinite),
                    emaEngine(MapSeq(stored, MicroIv), FAST_N),
                    emaEngine(MapSeq(stored, MicroIv), SLOW_N))

\* the per-asset history after the run
MergeOrders(prevOrders, orders) == SliceLast(prevOrders \o orders, ORDER_HISTORY)

\* a feed left in the order the assets were read
FeedAsCollected(allOrders) == SliceFirst(allOrders, FEED_LENGTH)

\* the feed: newest first, equal times in the order collected
SortFeed(allOrders) ==
  SliceFirst(SortBy(allOrders, LAMBDA o : 0 - o.t), FEED_LENGTH)

RECURSIVE RunAssets(_, _, _, _, _, _, _, _)
AfterAsset(i, assets, seriesOf, horizonDays, acc, ev, merged) ==
  RunAssets(i + 1, assets, seriesOf, horizonDays,
            [acc.orders EXCEPT ![assets[i]] = merged],
            [acc.risk EXCEPT ![assets[i]] = ev.risk],
            [acc.made EXCEPT ![assets[i]] = [orders |-> ev.orders, up |-> ev.up, down |-> ev.down]],
            acc.all \o SliceLast(merged, RECENT_PER_ASSET))

EvalJoin(i, assets, seriesOf, horizonDays, acc, ev) ==
  AfterAsset(i, assets, seriesOf, horizonDays, acc, ev,
             MergeOrders(acc.orders[assets[i]], ev.orders))

\* the loop over manifest.assets from the i-th on
RunAssets(i, assets, seriesOf, horizonDays, ordersBy, riskBy, madeBy, allOrders) ==
  IF i > Len(assets)
  THEN [orders |-> ordersBy, risk |-> riskBy, made |-> madeBy, feed |-> SortFeed(allOrders)]
  ELSE IF seriesOf[assets[i]] = <<>>
       THEN RunAssets(i + 1, assets, seriesOf, horizonDays, ordersBy, riskBy, madeBy, allOrders)
       ELSE EvalJoin(i, assets, seriesOf, horizonDays,
                     [orders |-> ordersBy, risk |-> riskBy, made |-> madeBy, all |-> allOrders],
                     EvalAsset(assets[i], seriesOf[assets[i]], horizonDays))

EngineSymbols == {"BTC", "ETH"}
NothingMade == [orders |-> <<>>, up |-> FALSE, down |-> FALSE]

EngineCommit(seriesOf, horizonDays, r) ==
  /\ assetOrders' = r.orders
  /\ riskJson' = r.risk
  /\ ordersFeed' = r.feed
  /\ engineRun' = [n |-> engineRun.n + 1, series |-> seriesOf, horizon |-> horizonDays,
                   before |-> assetOrders, made |-> r.made]
  /\ UNCHANGED <<manifest, notEngineVars>>

\* one run of main, the series of the assets drawn from SeriesSet
StrategyRun(SeriesSet, Horizons, maxRuns) ==
  /\ manifest # <<>> /\ engineRun.n < maxRuns
  /\ \E seriesOf \in [{manifest[i] : i \in 1..Len(manifest)} -> SeriesSet],
        horizonDays \in Horizons :
       EngineCommit(seriesOf, horizonDays,
                    RunAssets(1, manifest, seriesOf, horizonDays, assetOrders, riskJson,
                              [a \in EngineSymbols |-> NothingMade], <<>>))

\* the series of the single-asset runs
CrossAt == 20
MaxOff == 1
EngineRow(t, spot, iv) ==
  [t |-> t, spot |-> spot, days_to_expiry |-> TARGET_DAYS, atm_iv |-> iv,
   vega_weighted_iv |-> iv]
LastSpots == {Null, -1, 110}
\* a dip in a high series, the fast average back above the slow one CrossAt
\* points later; and a spike in a low series
DipSeries(m, spot) ==
  <<EngineRow(1, 110, 900), EngineRow(2, 110, 100)>>
  \o [i \in 1..(m - 1) |-> EngineRow(2 + i, 110, 900)] \o <<EngineRow(2 + m, spot, 900)>>
SpikeSeries(m, spot) ==
  <<EngineRow(1, 110, 100), EngineRow(2, 110, 900)>>
  \o [i \in 1..(m - 1) |-> EngineRow(2 + i, 110, 100)] \o <<EngineRow(2 + m, spot, 100)>>
ShortSeries ==
  { [i \in 1..Len(q) |-> [q[i] EXCEPT !.t = i]] : q \in SeqsUpTo(TailRows, MaxTail) }
WithLastSpot(q, spot) ==
  IF q = <<>> THEN q ELSE [q EXCEPT ![Len(q)].spot = spot]
EngineSeries ==
  { DipSeries(m, spot) : m \in (CrossAt - MaxOff)..(CrossAt + MaxOff), spot \in LastSpots }
  \cup { SpikeSeries(m, spot) : m \in (CrossAt - MaxOff)..(CrossAt + MaxOff), spot \in LastSpots }
  \cup { WithLastSpot(q, spot) : q \in ShortSeries, spot \in LastSpots }
HorizonDays == {0, 1, 4}

OldOrder(k) ==
  [t |-> 0 - k, symbol |-> "BTC", type |-> "entry", side |-> "buy",
   reason |-> "EMA20 > EMA100 and ERI <= median", qty |-> 1, price |-> "mkt",
   exchange |-> "paper", risk_budget_usd |-> RISK_BUDGET_USD, horizon_days |-> 1]
\* n orders of earlier runs, the oldest first
OldOrders(n) == [k \in 1..n |-> OldOrder(n - k)]

InitEngine ==
  /\ NotEngineIdle /\ run = NoRun
  /\ manifest = <<"BTC">>
  /\ \E n \in {0, ORDER_HISTORY} :
       assetOrders = [a \in EngineSymbols |-> IF a = "BTC" THEN OldOrders(n) ELSE <<>>]
  /\ riskJson = [a \in EngineSymbols |-> NoRisk]
  /\ ordersFeed = <<>>
  /\ engineRun = [n |-> 0]

NextEngine == StrategyRun(EngineSeries, HorizonDays, 1)

SpecEngine == InitEngine /\ [][NextEngine]_vars

\* runs over two assets, one after the other, on histories already long
MaxEngineRuns == 2
LaterBy == 10
ShiftT(q, d) == [i \in 1..Len(q) |-> [q[i] EXCEPT !.t = @ + d]]
OrderSeries ==
  { <<>>, DipSeries(CrossAt, 110), SpikeSeries(CrossAt, 110),
    ShiftT(DipSeries(CrossAt, 110), LaterBy) }

InitOrders ==
  /\ NotEngineIdle /\ run = NoRun
  /\ manifest = <<"BTC", "ETH">>
  /\ \E n \in {0, ORDER_HISTORY - 1, ORDER_HISTORY} :
       assetOrders = [a \in EngineSymbols |-> IF a = "BTC" THEN OldOrders(n) ELSE <<>>]
  /\ riskJson = [a \in EngineSymbols |-> NoRisk]
  /\ ordersFeed = <<>>
  /\ engineRun = [n |-> 0]

NextOrders == StrategyRun(OrderSeries, {1}, MaxEngineRuns)

SpecOrders == InitOrders /\ [][NextOrders]_vars

(***************************************************************************)
(* The claims about the strategy engine.                                    *)
(***************************************************************************)
\* the assets the last run evaluated
Evaluated ==
  IF engineRun.n = 0 THEN {}
  ELSE { a \in DOMAIN engineRun.series : engineRun.series[a] # <<>> }

MadeBuy(a) ==
  \E i \in 1..Len(engineRun.made[a].orders) :
     /\ engineRun.made[a].orders[i].type = "entry"
     /\ engineRun.made[a].orders[i].side = "buy"

MadeSell(a) ==
  \E i \in 1..Len(engineRun.made[a].orders) :
     /\ engineRun.made[a].orders[i].type = "exit"
     /\ engineRun.made[a].orders[i].side = "sell"

\* the current ERI at or below the trailing median, both as risk.json has them
EriAtOrBelowMedian(a) ==
  /\ NumberIsFinite(riskJson[a].ERI) /\ NumberIsFinite(riskJson[a].percentiles.p50)
  /\ riskJson[a].ERI <= riskJson[a].percentiles.p50

EriAtOrAboveP90(a) ==
  /\ NumberIsFinite(riskJson[a].ERI) /\ NumberIsFinite(riskJson[a].percentiles.p90)
  /\ riskJson[a].ERI >= riskJson[a].percentiles.p90

\* C15 as stated: a buy/entry order is emitted for an asset exactly when the
\* EMAs crossed up at the last point and the current ERI is at or below the
\* trailing median, a sell/exit order exactly when they crossed down and the
\* ERI is at or above the trailing 90th percentile, and no order otherwise.
C15_OrderIffCrossAndEri ==
  \A a \in Evaluated :
     /\ MadeBuy(a) <=> (engineRun.made[a].up /\ EriAtOrBelowMedian(a))
     /\ MadeSell(a) <=> (engineRun.made[a].down /\ EriAtOrAboveP90(a))
     /\ \A i \in 1..Len(engineRun.made[a].orders) :
          engineRun.made[a].orders[i].side \in {"buy", "sell"}

\* C15 amended: the same, for an asset whose size hint could be computed
\* (the last point's spot and IV finite and positive); an asset without a
\* size hint gets no order.
C15_OrderIffSizedCrossAndEri ==
  \A a \in Evaluated :
     /\ MadeBuy(a) <=> /\ riskJson[a].etv # NoSize
                       /\ engineRun.made[a].up /\ EriAtOrBelowMedian(a)
     /\ MadeSell(a) <=> /\ riskJson[a].etv # NoSize
                        /\ engineRun.made[a].down /\ EriAtOrAboveP90(a)
     /\ \A i \in 1..Len(engineRun.made[a].orders) :
          engineRun.made[a].orders[i].side \in {"buy", "sell"}

\* C15 witness: the EMAs crossed up with the ERI at the median and the buy
\* order was made
C15_BuyEmitted ==
  \E a \in Evaluated :
     engineRun.made[a].up /\ EriAtOrBelowMedian(a) /\ MadeBuy(a)

\* the quantity the formula gives: riskBudget over spot * (iv / sqrt(365)) *
\* sqrt(horizon), the root of the horizon taken with the floor or without
RootOf(h) == CHOOSE r \in 0..1000 : r * r = h
QtyByFormula(spot, iv, horizonTenThousandths, qty) ==
  LET move == spot * RoundDiv(iv * SD_SCALE, SQRT_365) * RootOf(horizonTenThousandths)
  IN move > 0 /\ qty = (RISK_BUDGET_USD * MOVE_SCALE) \div move

LastRow(a) == Last(engineRun.series[a])

IsSuffix(q, whole) ==
  Len(q) <= Len(whole) /\ q = SubSeq(whole, Len(whole) - Len(q) + 1, Len(whole))

\* C17: each per-asset order history holds at most 100 orders, the most
\* recently appended ones in append order, and the cross-asset feed holds at
\* most 200 orders in non-increasing order of t.
C17_HistoriesBoundedFeedSorted ==
  engineRun.n > 0 =>
    /\ \A a \in EngineSymbols :
         LET whole == engineRun.before[a] \o engineRun.made[a].orders
         IN /\ Len(assetOrders[a]) = Min(ORDER_HISTORY, Len(whole))
            /\ IsSuffix(assetOrders[a], whole)
    /\ Len(ordersFeed) <= FEED_LENGTH
    /\ \A i \in 1..(Len(ordersFeed) - 1) : ordersFeed[i].t >= ordersFeed[i + 1].t

\* C17 witness: a full history took one more order and dropped its oldest,
\* and the feed holds orders of both assets
C17_TrimmedAndMerged ==
  /\ engineRun.n > 0
  /\ \E a \in EngineSymbols :
       /\ Len(engineRun.before[a]) = ORDER_HISTORY
       /\ engineRun.made[a].orders # <<>>
       /\ assetOrders[a][1] = engineRun.before[a][2]
  /\ \E i, j \in 1..Len(ordersFeed) :
       ordersFeed[i].symbol # ordersFeed[j].symbol /\ ordersFeed[i].t > ordersFeed[j].t

\* null, not finite or not positive
Unusable(x) == ~NumberIsFinite(x) \/ x <= 0

\* C18: sigma_d and ERI are null whenever the IV of the last point is null,
\* not finite or not positive, and the size hint is null whenever that IV or
\* the spot is; nothing that is not finite is written to risk.json or to an
\* order's qty.
C18_NullOnUnusableInput ==
  \A a \in Evaluated :
     /\ Unusable(IvOf(LastRow(a))) =>
          riskJson[a].sigma_d = Null /\ riskJson[a].ERI = Null
     /\ (Unusable(IvOf(LastRow(a))) \/ Unusable(LastRow(a).spot)) =>
          riskJson[a].etv = NoSize
     /\ riskJson[a].sigma_d # NaN /\ riskJson[a].ERI # NaN /\ riskJson[a].spot # NaN
     /\ \A i \in 1..Len(engineRun.made[a].orders) :
          NumberIsFinite(engineRun.made[a].orders[i].qty)

(***************************************************************************)
(* main: the loop over ASSETS and the manifest.  buildForAsset is taken by  *)
(* how it settles: it returns its result or it throws.                      *)
(***************************************************************************)
BatchScripts == {"fetchOptionsData", "part_004"}
BASE_ASSETS == <<"BTC", "ETH", "LINK">>
\* ASSETS after CVI_INCLUDE and CVI_EXCLUDE: the universe in its order, cut
Selections ==
  { SelectSeq(BASE_ASSETS, LAMBDA a : a \in keep) :
      keep \in SUBSET {BASE_ASSETS[i] : i \in 1..Len(BASE_ASSETS)} }
PrevManifests == { <<>>, BASE_ASSETS }

Symbols(q) == {q[i] : i \in 1..Len(q)}

\* where main goes on after buildForAsset threw: the delay after the catch
AfterThrowUncaught == "failed"
AfterThrow == "delay"

\* the manifest of fetchOptionsData.js: the results of this run
ManifestOfResults(res) == res

\* the manifest of part_004: the earlier entries, those of this run put in
\* or replaced, cut to the tracked assets
ManifestMerged(prevAssets, res, tracked) ==
  SelectSeq(prevAssets \o SelectSeq(res, LAMBDA a : a \notin Symbols(prevAssets)),
            LAMBDA a : a \in Symbols(tracked))

InitBatch ==
  /\ NotBatchIdle /\ run = NoRun
  /\ batchScript \in BatchScripts
  /\ selected \in Selections
  /\ bpc = "start" /\ bi = 0
  /\ attempted = <<>> /\ results = <<>>
  /\ manifestJson \in PrevManifests

\* main up to the loop: process.exit(0) when no asset is selected
MainStarts ==
  /\ bpc = "start"
  /\ IF selected = <<>>
     THEN bpc' = "exited" /\ bi' = bi
     ELSE bpc' = "build" /\ bi' = 1
  /\ UNCHANGED <<batchScript, selected, attempted, results, manifestJson, notBatchVars>>

\* await buildForAsset(sym) returns
BuildReturns ==
  /\ bpc = "build"
  /\ attempted' = Append(attempted, [sym |-> selected[bi], threw |-> FALSE])
  /\ results' = Append(results, selected[bi])
  /\ bpc' = "delay"
  /\ UNCHANGED <<batchScript, selected, bi, manifestJson, notBatchVars>>

\* await buildForAsset(sym) throws: the catch logs it
BuildThrows ==
  /\ bpc = "build"
  /\ attempted' = Append(attempted, [sym |-> selected[bi], threw |-> TRUE])
  /\ bpc' = AfterThrow
  /\ UNCHANGED <<batchScript, selected, bi, results, manifestJson, notBatchVars>>

\* the delay is over: the next asset, or after the last one the manifest
DelayOver ==
  /\ bpc = "delay"
  /\ IF bi < Len(selected)
     THEN bi' = bi + 1 /\ bpc' = "build" /\ UNCHANGED manifestJson
     ELSE /\ bi' = bi /\ bpc' = "done"
          /\ manifestJson' = IF batchScript = "part_004"
                             THEN ManifestMerged(manifestJson, results, selected)
                             ELSE ManifestOfResults(results)
  /\ UNCHANGED <<batchScript, selected, attempted, results, notBatchVars>>

NextBatch == MainStarts \/ BuildReturns \/ BuildThrows \/ DelayOver

SpecBatch == InitBatch /\ [][NextBatch]_vars

\* every await of main settles: buildForAsset returns or throws, a timer fires
FairBatch == SpecBatch /\ WF_vars(NextBatch)

BatchOver == bpc \in {"done", "exited"}

\* C19: whatever asset's pipeline throws, the run goes through the tracked
\* assets one after the other in their order, all of them, and then writes
\* the manifest; it ends before that only when no asset is selected.
C19_EveryAssetThenManifest ==
  /\ [](/\ Len(attempted) <= Len(selected)
        /\ \A i \in 1..Len(attempted) : attempted[i].sym = selected[i]
        /\ bpc = "done" => /\ Len(attempted) = Len(selected)
                           /\ Symbols(manifestJson) \subseteq Symbols(selected)
                           /\ Symbols(results) \subseteq Symbols(manifestJson)
        /\ bpc = "exited" => selected = <<>>)
  /\ <>BatchOver

\* C19 witness: an asset threw, a later one was built, the manifest is written
C19_ThrewAndWentOn ==
  /\ bpc = "done"
  /\ \E i, j \in 1..Len(attempted) :
       i < j /\ attempted[i].threw /\ ~attempted[j].threw

(***************************************************************************)
(* writeJSON.  A file is DocChunks pieces long; a reader finds the pieces   *)
(* written so far.  The process may be stopped between any two steps.       *)
(***************************************************************************)
DocChunks == 2
FsWriters == {"fetchOptionsData.writeJSON", "part_004.writeJSON", "part_003.writeJSONAtomic"}
AssetFiles == {"cvi.json", "smile_meta.json", "cvi_timeseries.json", "signals.json"}
Whole(version) == [k \in 1..DocChunks |-> version]
Absent == <<"absent">>

\* writeJSONAtomic, directly or through part_004's writeJSON
Atomic(writer) == writer \in {"part_004.writeJSON", "part_003.writeJSONAtomic"}

InitFs ==
  /\ NotFsIdle /\ run = NoRun
  /\ fsWriter \in FsWriters
  /\ fsFile \in AssetFiles
  /\ target \in {Absent, Whole("old")}
  /\ tmp = Absent
  /\ fpc = "open"

\* fs.writeFileSync opens its file for writing: the file is there and empty
OpenTruncates ==
  /\ fpc = "open"
  /\ IF Atomic(fsWriter)
     THEN tmp' = <<>> /\ target' = target
     ELSE target' = <<>> /\ tmp' = tmp
  /\ fpc' = "write"
  /\ UNCHANGED <<fsWriter, fsFile, notFsVars>>

\* one more piece reaches the file
WritesChunk ==
  /\ fpc = "write"
  /\ IF Atomic(fsWriter)
     THEN /\ tmp' = Append(tmp, "new") /\ target' = target
          /\ fpc' = IF Len(tmp) + 1 = DocChunks THEN "rename" ELSE "write"
     ELSE /\ target' = Append(target, "new") /\ tmp' = tmp
          /\ fpc' = IF Len(target) + 1 = DocChunks THEN "done" ELSE "write"
  /\ UNCHANGED <<fsWriter, fsFile, notFsVars>>

\* fs.renameSync(tmp, filePath)
Renames ==
  /\ fpc = "rename"
  /\ target' = tmp /\ tmp' = Absent
  /\ fpc' = "done"
  /\ UNCHANGED <<fsWriter, fsFile, notFsVars>>

\* the process is stopped before its next step
Interrupted ==
  /\ fpc \in {"open", "write", "rename"}
  /\ fpc' = "stopped"
  /\ UNCHANGED <<fsWriter, fsFile, target, tmp, notFsVars>>

NextFs == OpenTruncates \/ WritesChunk \/ Renames \/ Interrupted

SpecFs == InitFs /\ [][NextFs]_vars

\* C20: at every step of every write of a file of an asset, stopped or not,
\* a reader of the file finds the whole previous content (or no file, before
\* the first write) or the whole new content.
C20_ReaderSeesWholeFile ==
  fsWriter # "none" => target \in {Absent, Whole("old"), Whole("new")}

(***************************************************************************)
(* Stored files as the runs find them.  A file is absent, holds text that   *)
(* JSON.parse rejects, or holds JSON: null, an object, or an array.  The    *)
(* runs are followed through their uses of the value read: .length, push,   *)
(* map, spread.                                                             *)
(***************************************************************************)
FileAbsent == [kind |-> "absent"]
FileText == [kind |-> "text"]
JsonNull == [kind |-> "null"]
JsonObject == [kind |-> "object"]
JsonArray(q) == [kind |-> "array", rows |-> q]

\* try { JSON.parse(fs.readFileSync(p)) } catch { fallback }
readJSON(file, fallback) ==
  IF file.kind \in {"absent", "text"} THEN fallback ELSE file

\* v.length: a TypeError on null, undefined on an object
lengthOf(v) ==
  IF v.kind = "null" THEN Throw ELSE IF v.kind = "array" THEN Len(v.rows) ELSE Null

\* v.push, v.map and [...v] are there for an array only
IsArray(v) == v.kind = "array"

Thrown(file) == [threw |-> TRUE, file |-> file]
Written(v) == [threw |-> FALSE, file |-> v]

\* fetchOptionsData.js: the series from line 237 to line 409
SeriesMain(file, v, sKnown) ==
  IF ~sKnown /\ lengthOf(v) = Throw THEN Thrown(file)
  ELSE IF lengthOf(v) = Throw THEN Thrown(file)
  ELSE IF ~IsArray(v) THEN Thrown(file)
  ELSE Written(JsonArray(Trim(v.rows \o (IF lengthOf(v) = 0 THEN <<"seed">> ELSE <<>>)
                                     \o <<"new">>)))

\* the catch block threw
CatchThrew == [kind |-> "threw"]

\* part_004: the value of series after the try and its catch
SeriesAfterTry(v, sKnown, feedThrows, tick) ==
  IF /\ ~feedThrows
     /\ ~(lengthOf(v) = Throw)
     /\ IsArray(v)
  THEN JsonArray(v.rows \o <<"new">>)
  ELSE IF ~tick THEN v
  ELSE IF IsArray(v) /\ Len(v.rows) > 0 THEN JsonArray(v.rows \o <<"clone">>)
  ELSE IF IsArray(v) THEN JsonArray(<<"seed">>)
  ELSE CatchThrew

\* part_004: lines 395-403 on the value the try left
SeriesPart4After(file, v2) ==
  IF v2 = CatchThrew THEN Thrown(file)
  ELSE IF lengthOf(v2) = Throw THEN Thrown(file)
  ELSE IF ~IsArray(v2) THEN Thrown(v2)
  ELSE Written(JsonArray(Trim(v2.rows)))

SeriesPart4(file, v, sKnown, feedThrows, tick) ==
  SeriesPart4After(file, SeriesAfterTry(v, sKnown, feedThrows, tick))

\* both scripts: signals.json, a signal made by this run or not
SignalsRun(file, v, made) ==
  IF ~made THEN Written(v)
  ELSE IF ~IsArray(v) THEN Thrown(file)
  ELSE Written(JsonArray(SliceLast(Append(v.rows, "new"), SIGNAL_HISTORY)))

\* strategyEngine.js: orders.json of an asset, [...prevOrders, ...orders]
OrdersRun(file, v, made) ==
  IF ~IsArray(v) THEN Thrown(file)
  ELSE Written(JsonArray(SliceLast(v.rows \o (IF made THEN <<"new">> ELSE <<>>),
                                   ORDER_HISTORY)))

RunOnStored(c, file) ==
  IF c.what = "series"
  THEN IF c.variant = "part_004"
       THEN SeriesPart4(file, readJSON(file, JsonArray(<<>>)), c.sKnown, c.feedThrows, c.tick)
       ELSE SeriesMain(file, readJSON(file, JsonArray(<<>>)), c.sKnown)
  ELSE IF c.what = "signals"
  THEN SignalsRun(file, readJSON(file, JsonArray(<<>>)), c.made)
  ELSE OrdersRun(file, readJSON(file, JsonArray(<<>>)), c.made)

MaxOld == 2
StoredFiles ==
  {FileAbsent, FileText, JsonNull, JsonObject}
  \cup { JsonArray([i \in 1..n |-> "old"]) : n \in 0..MaxOld }

HealCalls ==
  { [op |-> "heal", what |-> "series", variant |-> v, file |-> f, sKnown |-> k,
     feedThrows |-> x, tick |-> t, made |-> FALSE] :
       v \in {"fetchOptionsData", "part_004"}, f \in StoredFiles,
       k \in BOOLEAN, x \in BOOLEAN, t \in BOOLEAN }
  \cup { [op |-> "heal", what |-> w, variant |-> "fetchOptionsData", file |-> f,
          sKnown |-> TRUE, feedThrows |-> FALSE, tick |-> TRUE, made |-> m] :
            w \in {"signals", "orders"}, f \in StoredFiles, m \in BOOLEAN }

InitHeal ==
  /\ CoreIdle /\ run = NoRun
  /\ call \in HealCalls
  /\ result = [done |-> FALSE]

SettleHeal ==
  /\ call.op = "heal" /\ ~result.done
  /\ result' = [done |-> TRUE, out |-> RunOnStored(call, call.file)]
  /\ UNCHANGED <<call, coreVars>>

NextHeal == SettleHeal

SpecHeal == InitHeal /\ [][NextHeal]_vars

\* not what the program writes: text that does not parse, or JSON that is
\* not an array
Malformed(file) == file.kind \in {"text", "null", "object"}

\* C21: a run that finds a stored series, signal history or order history
\* malformed does what it does when the file is absent: it does not fail and
\* it writes the file anew from the empty structure.
C21_MalformedStateHeals ==
  (call.op = "heal" /\ result.done /\ Malformed(call.file)) =>
     /\ ~result.out.threw
     /\ result.out = RunOnStored(call, FileAbsent)


(***************************************************************************)
(* The times of the stored series.                                         *)
(***************************************************************************)
\* the rows of s in stored order carry times that never step back and
\* never repeat
UniqueNonDecreasing(s) ==
  \A i, j \in 1..Len(s) : i < j => s[i].t <= s[j].t /\ s[i].t # s[j].t

\* C22: whatever runs were made, each run reading the clock later than the
\* run before it, the t of every asset's stored series are unique and
\* non-decreasing in stored order, the seed of a first run and the clone of
\* a failed run included
C22_TimesUniqueAndOrdered ==
  \A a \in ASSETS : UniqueNonDecreasing(series[a])

\* a failed run of part_004 cloned the last point of a series that a first,
\* failed run had seeded
C22_SeedThenClone ==
  /\ script = "part_004"
  /\ run.sym \in ASSETS
  /\ run.prev # <<>>
  /\ run.prev[1] = SeedRow(run.prev[1].t)
  /\ run.pushed = <<cloneLastRowWithNewTime(run.prev, clock)>>
  /\ Len(series[run.sym]) >= 2


(***************************************************************************)
(* The expiry of the surface.  fetchOptionsData.js and part_004 take the   *)
(* head of byProx; part_008 has pickExpiryClosestTo, which looks inside a  *)
(* window of days first.  Expiries are in whole days from now.             *)
(***************************************************************************)
WINDOW_MIN == 20
WINDOW_MAX == 45

\* byProx[0].expiration_timestamp, null when instruments or byProx is empty
ExpiryMain(instruments) ==
  IF instruments = <<>> \/ byProx(instruments) = <<>> THEN Null
  ELSE byProx(instruments)[1].dte

\* part_008: (data?.result || []).filter(o => o.is_active)
getInstrumentsPart8(instruments) == SelectSeq(instruments, LAMBDA x : x.is_active)

\* Math.max(0, ms - Date.now()) in days
yearsToExpiry(dte) == IF dte < 0 THEN 0 ELSE dte

\* pool.reduce: a later element replaces best only when strictly nearer
RECURSIVE PickReduce(_, _, _, _)
PickReduce(pool, days, k, best) ==
  IF k > Len(pool) THEN best
  ELSE PickReduce(pool, days, k + 1,
         IF best = Null
            \/ Abs(yearsToExpiry(pool[k].dte) - days)
                 < Abs(yearsToExpiry(pool[best].dte) - days)
         THEN k ELSE best)

pickExpiryClosestTo(days, instruments) ==
  IF instruments = <<>> THEN Null
  ELSE LET filtered == SelectSeq(instruments,
                         LAMBDA x : /\ yearsToExpiry(x.dte) >= WINDOW_MIN
                                    /\ yearsToExpiry(x.dte) <= WINDOW_MAX)
           pool == IF filtered # <<>> THEN filtered ELSE instruments
       IN  pool[PickReduce(pool, days, 1, Null)].dte

ExpiryOf(c) ==
  IF c.variant = "part_008"
  THEN pickExpiryClosestTo(TARGET_DAYS, getInstrumentsPart8(c.instruments))
  ELSE ExpiryMain(c.instruments)

MaxListed == 3
ExpiryDays == {0, 1, 2, 18, 30, 45, 50}
Listed == [dte : ExpiryDays, is_active : BOOLEAN]
ExpiryCalls ==
  { [op |-> "expiry", variant |-> v, instruments |-> q] :
      v \in {"fetchOptionsData", "part_008"},
      q \in UNION { [1..n -> Listed] : n \in 0..MaxListed } }

InitExpiry ==
  /\ CoreIdle /\ run = NoRun
  /\ call \in ExpiryCalls
  /\ result = [done |-> FALSE]

SettleExpiry ==
  /\ call.op = "expiry" /\ ~result.done
  /\ result' = [done |-> TRUE, out |-> ExpiryOf(call)]
  /\ UNCHANGED <<call, coreVars>>

NextExpiry == SettleExpiry

SpecExpiry == InitExpiry /\ [][NextExpiry]_vars

\* the expiries of the active instruments more than a day ahead
Eligible(instruments) ==
  { instruments[i].dte : i \in { k \in 1..Len(instruments) :
                                   instruments[k].is_active /\ instruments[k].dte > 1 } }
InWindow(d) == d >= WINDOW_MIN /\ d <= WINDOW_MAX
ClosestIn(D, d) ==
  d \in D /\ \A e \in D : Abs(d - TARGET_DAYS) <= Abs(e - TARGET_DAYS)

\* C23: the chosen expiry is that of an active instrument more than a day
\* ahead; if some such expiry is within 20..45 days the chosen one is within
\* 20..45 days and the nearest to 30 of those, else it is the nearest to 30
\* of all such expiries
C23_ExpiryPrefersWindow ==
  (call.op = "expiry" /\ result.done /\ result.out # Null) =>
     LET E == Eligible(call.instruments)
         W == { e \in E : InWindow(e) }
     IN  /\ result.out \in E
         /\ IF W # {} THEN ClosestIn(W, result.out) ELSE ClosestIn(E, result.out)


(***************************************************************************)
(* The crossover test at every index of a pair of EMA series: the test of  *)
(* buildSignal on the series cut after index k, and the engine's test on   *)
(* the values at k - 1 and k.                                              *)
(***************************************************************************)
\* at(-2) of a one-element array is undefined, and no comparison with
\* undefined holds
TestAt(variant, fast, slow, k) ==
  IF variant = "strategyEngine"
  THEN [up   |-> crossedUpEngine(At(fast, k - 1), At(slow, k - 1), At(fast, k), At(slow, k)),
        down |-> crossedDownEngine(At(fast, k - 1), At(slow, k - 1), At(fast, k), At(slow, k))]
  ELSE IF k < 2 THEN [up |-> FALSE, down |-> FALSE]
  ELSE [up   |-> crossedUp(SubSeq(fast, 1, k), SubSeq(slow, 1, k)),
        down |-> crossedDown(SubSeq(fast, 1, k), SubSeq(slow, 1, k))]

MaxEma == 4
EmaLevels == {1, 2, 3}
CrossCalls ==
  { [op |-> "cross", variant |-> v, fast |-> f, slow |-> g] :
      v \in {"fetchOptionsData", "strategyEngine"},
      f \in UNION { [1..n -> EmaLevels] : n \in 1..MaxEma },
      g \in UNION { [1..n -> EmaLevels] : n \in 1..MaxEma } }

InitCross ==
  /\ CoreIdle /\ run = NoRun
  /\ call \in { c \in CrossCalls : Len(c.fast) = Len(c.slow) }
  /\ result = [done |-> FALSE]

SettleCross ==
  /\ call.op = "cross" /\ ~result.done
  /\ result' = [done |-> TRUE,
                out |-> [k \in 1..Len(call.fast) |->
                           TestAt(call.variant, call.fast, call.slow, k)]]
  /\ UNCHANGED <<call, coreVars>>

NextCross == SettleCross

SpecCross == InitCross /\ [][NextCross]_vars

\* fast is below slow before index i and above it from i on
CrossesUpAt(fast, slow, i) ==
  /\ i \in 2..Len(fast)
  /\ \A k \in 1..(i - 1) : fast[k] < slow[k]
  /\ \A k \in i..Len(fast) : fast[k] > slow[k]

\* C24: on a pair of EMA series where fast is below slow before index i and
\* above slow from i on, the test reports crossedUp at i and at no other
\* index; and on any pair it never reports crossedUp and crossedDown at the
\* same index
C24_CrossReportedOnceAtI ==
  (call.op = "cross" /\ result.done) =>
     /\ \A i \in 1..Len(call.fast) :
          CrossesUpAt(call.fast, call.slow, i) =>
            \A k \in 1..Len(call.fast) : result.out[k].up <=> k = i
     /\ \A k \in 1..Len(call.fast) : ~(result.out[k].up /\ result.out[k].down)

\* a cross in the middle of a series of four was reported
C24_CrossInTheMiddle ==
  /\ call.op = "cross" /\ result.done
  /\ Len(call.fast) = MaxEma
  /\ CrossesUpAt(call.fast, call.slow, 3)
  /\ result.out[3].up


(***************************************************************************)
(* The Signal against the triggers of its series.                          *)
(***************************************************************************)
TriggersOf(y, fast, slow, loP, hiP) ==
  [up   |-> fast[Len(fast) - 1] <= slow[Len(slow) - 1] /\ Last(fast) > Last(slow),
   down |-> fast[Len(fast) - 1] >= slow[Len(slow) - 1] /\ Last(fast) < Last(slow),
   atHi |-> hiP \notin {Null, NaN} /\ Last(y) >= hiP,
   atLo |-> loP \notin {Null, NaN} /\ Last(y) <= loP]

TriggersOfFinite(y) ==
  TriggersOf(y, ema(y, EMA_FAST), ema(y, EMA_SLOW),
             percentile(SliceLast(y, SIGNAL_WINDOW), 10),
             percentile(SliceLast(y, SIGNAL_WINDOW), 90))

SignalTriggers(stored) == TriggersOfFinite(SelectSeq(MapSeq(stored, MicroIv), IsFinite))

\* strength and size_hint are in hundredths
SignalAgrees(sig, g) ==
  /\ sig.strength >= 0 /\ sig.strength <= 100
  /\ 2 * sig.size_hint = 100 + sig.strength
  /\ sig.size_hint >= 50 /\ sig.size_hint <= 100
  /\ (sig.recommendation = "Hold") <=> ~(g.up \/ g.down \/ g.atHi \/ g.atLo)
  /\ (sig.recommendation = "Hold") => sig.strength = 0
  /\ g.atLo => sig.recommendation = "Long Volatility"
  /\ (g.atHi /\ ~g.atLo) => sig.recommendation = "Short Volatility"

\* C25: a Signal has strength within [0,1] and size_hint = 0.5 + strength/2
\* within [0.5,1]; it is Hold, with strength 0, exactly when no crossover
\* happened and the last IV is neither at or above the 90th percentile nor
\* at or below the 10th; an IV at or above the 90th percentile sets it to
\* Short Volatility and one at or below the 10th, tested after it, to Long
\* Volatility
C25_SignalWithinBounds ==
  (call.op = "signal" /\ result.done /\ result.sig # NoSignal) =>
     SignalAgrees(result.sig, SignalTriggers(call.series))

\* a Signal that is Hold, at strength 0 and size_hint 0.5
C25_HoldSignal ==
  /\ call.op = "signal" /\ result.done /\ result.sig # NoSignal
  /\ result.sig.recommendation = "Hold"
  /\ result.sig.strength = 0 /\ result.sig.size_hint = 50


(***************************************************************************)
(* percentile of fetchOptionsData.js and of strategyEngine.js on arrays of *)
(* finite numbers.                                                         *)
(***************************************************************************)
\* [...arr].sort and arr.filter(..).slice().sort work on a copy: the array
\* passed in keeps its elements in their order
ArrAfterPercentile(arr) == arr

PercentileOf(c) ==
  IF c.variant = "strategyEngine" THEN percentileEngine(c.arr, c.p)
  ELSE percentile(c.arr, c.p)

MaxArr == 5
ArrValues == {1, 2, 3, 4, 5}
Ranks == {0, 10, 50, 90, 100}
PercentileCalls ==
  { [op |-> "percentile", variant |-> v, arr |-> a, p |-> q] :
      v \in {"fetchOptionsData", "strategyEngine"},
      a \in UNION { [1..n -> ArrValues] : n \in 1..MaxArr },
      q \in Ranks }

InitPercentile ==
  /\ CoreIdle /\ run = NoRun
  /\ call \in PercentileCalls
  /\ result = [done |-> FALSE]

SettlePercentile ==
  /\ call.op = "percentile" /\ ~result.done
  /\ result' = [done |-> TRUE, out |-> PercentileOf(call),
                arr |-> ArrAfterPercentile(call.arr)]
  /\ UNCHANGED <<call, coreVars>>

NextPercentile == SettlePercentile

SpecPercentile == InitPercentile /\ [][NextPercentile]_vars

ValuesOf(arr) == {arr[i] : i \in 1..Len(arr)}
MinOf(arr) == CHOOSE v \in ValuesOf(arr) : \A u \in ValuesOf(arr) : v <= u
MaxOf(arr) == CHOOSE v \in ValuesOf(arr) : \A u \in ValuesOf(arr) : v >= u
\* the value with at most half of the other entries below it and at most
\* half above it
MiddleOf(arr) ==
  CHOOSE v \in ValuesOf(arr) :
    /\ 2 * Cardinality({i \in 1..Len(arr) : arr[i] < v}) < Len(arr)
    /\ 2 * Cardinality({i \in 1..Len(arr) : arr[i] > v}) < Len(arr)

\* C26: on a non-empty array of finite numbers percentile at 0 is the
\* minimum, at 100 the maximum and, for an odd length, at 50 the middle
\* order statistic; the array passed in is as it was
C26_PercentileEnds ==
  (call.op = "percentile" /\ result.done) =>
     /\ call.p = 0 => result.out = MinOf(call.arr)
     /\ call.p = 100 => result.out = MaxOf(call.arr)
     /\ (call.p = 50 /\ Len(call.arr) % 2 = 1) => result.out = MiddleOf(call.arr)
     /\ result.arr = call.arr

\* the median of five distinct values given out of order is the third
C26_MedianOfFive ==
  /\ call.op = "percentile" /\ result.done
  /\ call.arr = <<3, 5, 1, 4, 2>> /\ call.p = 50
  /\ result.out = 3


(***************************************************************************)
(* The points of the engine's series that have no finite IV.               *)
(***************************************************************************)
HasFiniteIv(r) == IvOf(r) \notin {Null, NaN}

\* the ERI of the points of the trailing window that have a finite IV
FiniteWindow(q) == MapSeq(SelectSeq(SliceLast(q, PCT_WINDOW), HasFiniteIv), eriOfRow)

PercentilesOf(window) ==
  [p10 |-> percentileEngine(window, 10), p50 |-> percentileEngine(window, 50),
   p90 |-> percentileEngine(window, 90)]

IvlessLeftOut(q, risk) ==
  /\ ~HasFiniteIv(Last(q)) => risk.ERI = Null
  /\ risk.percentiles = PercentilesOf(FiniteWindow(q))

\* C27: a point with no finite IV adds nothing to the risk statistics: when
\* it is the last point the ERI of risk.json is null, and p10, p50 and p90
\* are those of the points of the trailing window that have a finite IV
C27_IvlessPointsLeftOut ==
  \A a \in Evaluated : IvlessLeftOut(engineRun.series[a], riskJson[a])


(***************************************************************************)
(* The engine's orders against the Signal Engine on the same series.       *)
(***************************************************************************)
\* buildSignal makes a Signal of the series and its crossover test holds
SignalReportsUp(q) ==
  IF buildSignal(q, 0) = NoSignal THEN FALSE ELSE SignalTriggers(q).up
SignalReportsDown(q) ==
  IF buildSignal(q, 0) = NoSignal THEN FALSE ELSE SignalTriggers(q).down

\* C28: the engine emits a buy for an asset only if buildSignal, on the same
\* series, reports crossedUp, and a sell only if it reports crossedDown; it
\* emits nothing for a series of which buildSignal makes no Signal
C28_OrdersOnlyOnSignalCross ==
  \A a \in Evaluated :
     /\ MadeBuy(a) => SignalReportsUp(engineRun.series[a])
     /\ MadeSell(a) => SignalReportsDown(engineRun.series[a])


(***************************************************************************)
(* A second run of the engine on the series of the run before it.          *)
(***************************************************************************)
\* this step is a run on the very series the last run read
RunOnSameSeries ==
  /\ engineRun.n >= 1
  /\ engineRun'.n = engineRun.n + 1
  /\ engineRun'.series = engineRun.series

OneOrderPerTypeAndTime(q) ==
  \A i, j \in 1..Len(q) : (i < j /\ q[i].type = q[j].type) => q[i].t # q[j].t

\* C29: a run of the engine on the same manifest and the same series as the
\* run before it leaves every per-asset order history and the feed as they
\* were, and a per-asset history never holds two orders of one type for one
\* time-series timestamp t
C29_RerunChangesNothing ==
  /\ [][RunOnSameSeries => (assetOrders' = assetOrders /\ ordersFeed' = ordersFeed)]_vars
  /\ [](\A a \in EngineSymbols : OneOrderPerTypeAndTime(assetOrders[a]))


(***************************************************************************)
(* The strikes of the written smile.                                       *)
(***************************************************************************)
\* C30: the smile a run writes has at most one point per strike, whether
\* put-derived points were added to sparse call-derived ones or the strikes
\* of a synthetic smile were rounded
C30_OnePointPerStrike ==
  (Ran /\ run.wroteSmile) =>
     \A i, j \in 1..Len(cvi[run.sym]) :
        i # j => cvi[run.sym][i].strike # cvi[run.sym][j].strike

====
